---- MODULE Spec2Model ----
(***************************************************************************)
(* Model of the mockestrator intent pipeline: the POST /intent-operations  *)
(* handler (src/src/routes/intent_store.ts), the intent record store       *)
(* (services/intentRepo), the status handler                                *)
(* (src/src/routes/intent_status.ts), the route handler                     *)
(* (routes/intent_route) and the mock router contract                       *)
(* (src/contracts/MockIntentExecutor.sol) on the forked chains.             *)
(*                                                                         *)
(* Addresses are modelled by the integer value of their 20 bytes; a        *)
(* token id is the pair (hi, lo) standing for hi * 2^160 + lo, so that the *)
(* 20-byte padding of the decoder can overflow.  Hex strings are           *)
(* sequences of nibbles after the 0x prefix.  A transaction hash is the    *)
(* position of the transaction in the list of sent transactions; 0 is the  *)
(* all-zero hash.                                                           *)
(***************************************************************************)
EXTENDS Integers, Sequences, FiniteSets, TLC

\* ---------------------------------------------------------------- bounds

\* Submissions accepted over a run (caps the transaction counter).
MaxSubmit == 2
\* Last value of the wall clock, in seconds.
MaxTime == 1
\* Put operations in the store-only specification.
MaxPuts == 3
\* The significand of a number, in bits, standing for the 53 of a double.
SignificandBits == 3

\* ------------------------------------------------------------- addresses

zeroAddress == 0
USDC == 1
ROUTER_ADDRESS == 2
USER_ADDRESS == 3
RECIPIENT_ADDRESS == 4
INTENT_EXECUTOR_ADDRESS == 5
MULTICALL3_ADDRESS == 6
RELAYER_ADDRESS == 7

BASE_SEPOLIA_CHAIN_ID == 84532
SEPOLIA_CHAIN_ID == 11155111
\* A chain id that rpcs.json does not list.
UnknownChains == {1}

\* The all-zero 32-byte hash.
ZeroHash == 0

\* Tokens the router holds when the server starts (config.json funding).
RouterFunds == 2

\* ------------------------------------------------------------ generic

RECURSIVE Flatten(_)
Flatten(ss) == IF ss = <<>> THEN <<>> ELSE Head(ss) \o Flatten(Tail(ss))

MapSeq(s, F(_)) == [i \in 1..Len(s) |-> F(s[i])]

\* Index of the first element satisfying P, or 0.
FirstIndex(s, P(_)) ==
    IF \E i \in 1..Len(s) : P(s[i])
    THEN CHOOSE i \in 1..Len(s) : P(s[i]) /\ \A j \in 1..(i - 1) : ~P(s[j])
    ELSE 0

\* --------------------------------------------------------- configuration

\* chainContexts(): the chain execution services loaded from rpcs.json.
ConfiguredChains == {BASE_SEPOLIA_CHAIN_ID, SEPOLIA_CHAIN_ID}

chainContexts(chain) == chain \in ConfiguredChains

\* ------------------------------------------------------------- decoding

\* A variant whose tuple check throws a plain error instead of a ZodError.
IdAndAmount_PlainError(v) ==
    IF v.kind # "pair" THEN [res |-> "error"]
    ELSE IF v.id.hi # 0 THEN [res |-> "error"]
    ELSE [res |-> "ok", address |-> v.id.lo, value |-> v.amount]

\* z.tuple([BigIntSchema, BigIntSchema]).transform: pad(toHex(id), 20 bytes).
\* "zod": the tuple is not two integers; "error": pad throws on an id wider
\* than 20 bytes.
IdAndAmount(v) ==
    IF v.kind # "pair" THEN [res |-> "zod"]
    ELSE IF v.id.hi # 0 THEN [res |-> "error"]
    ELSE [res |-> "ok", address |-> v.id.lo, value |-> v.amount]

toTokenTransfers(elements) ==
    LET wire == Flatten(MapSeq(elements, LAMBDA e : e.mandate.tokenOut))
        dec  == MapSeq(wire, IdAndAmount)
        bad  == FirstIndex(dec, LAMBDA d : d.res # "ok")
    IN  IF bad # 0 THEN [res |-> dec[bad].res, transfers |-> <<>>]
        ELSE [res |-> "ok",
              transfers |-> MapSeq(dec, LAMBDA d : [address |-> d.address, value |-> d.value])]

\* DestinationOp: z.object({to, data}).
DestinationOp(op) ==
    IF op.wf \in {"full", "novalue"}
    THEN [res |-> "ok", to |-> op.to, callData |-> op.data]
    ELSE [res |-> "zod"]

\* DestinationOpWithValue: z.object({to, value, data}).
DestinationOpWithValue(op) ==
    IF op.wf = "full"
    THEN [res |-> "ok", to |-> op.to, value |-> op.value, data |-> op.data]
    ELSE [res |-> "zod"]

\* Array.isArray(destOps) ? destOps : (destOps?.ops ?? [])
opsArray(destOps) ==
    IF destOps.shape \in {"array", "tagged"} THEN destOps.ops ELSE <<>>

\* A variant that leaves the legacy destination ops out of the call list.
toDestinationOps_None(elements) == [res |-> "ok", calls |-> <<>>]

toDestinationOps(elements) ==
    LET wire == Flatten(MapSeq(elements, LAMBDA e : opsArray(e.mandate.destinationOps)))
        dec  == MapSeq(wire, DestinationOp)
        bad  == FirstIndex(dec, LAMBDA d : d.res # "ok")
    IN  IF bad # 0 THEN [res |-> "zod", calls |-> <<>>]
        ELSE [res |-> "ok",
              calls |-> MapSeq(dec, LAMBDA d : [to |-> d.to, callData |-> d.callData])]

\* destOps.ops of the element: undefined for an array and for no destinationOps.
taggedOps(destOps) ==
    IF destOps.shape = "tagged" THEN destOps.ops ELSE <<>>

\* A variant that reads the tag of the first element that carries one.
toDestinationOpsEncoded_AnyVt(elements) ==
    LET wire  == Flatten(MapSeq(elements, LAMBDA e : taggedOps(e.mandate.destinationOps)))
        dec   == MapSeq(wire, DestinationOpWithValue)
        bad   == FirstIndex(dec, LAMBDA d : d.res # "ok")
        first == FirstIndex(elements, LAMBDA e : /\ taggedOps(e.mandate.destinationOps) # <<>>
                                                 /\ e.mandate.destinationOps.vt.present)
    IN  IF bad # 0 THEN [res |-> "zod"]
        ELSE IF dec = <<>> THEN [res |-> "ok", empty |-> TRUE]
        ELSE [res |-> "ok", empty |-> FALSE,
              execType |-> IF first # 0 THEN elements[first].mandate.destinationOps.vt.execType
                           ELSE 2,
              sigMode  |-> IF first # 0 THEN elements[first].mandate.destinationOps.vt.sigMode
                           ELSE 1,
              ops |-> MapSeq(dec, LAMBDA d : [to |-> d.to, value |-> d.value, data |-> d.data])]

\* The packed payload: [empty |-> TRUE] is the literal 0x.
toDestinationOpsEncoded(elements) ==
    LET wire  == Flatten(MapSeq(elements, LAMBDA e : taggedOps(e.mandate.destinationOps)))
        dec   == MapSeq(wire, DestinationOpWithValue)
        bad   == FirstIndex(dec, LAMBDA d : d.res # "ok")
        first == FirstIndex(elements, LAMBDA e : taggedOps(e.mandate.destinationOps) # <<>>)
        vt    == elements[first].mandate.destinationOps.vt
    IN  IF bad # 0 THEN [res |-> "zod"]
        ELSE IF dec = <<>> THEN [res |-> "ok", empty |-> TRUE]
        ELSE [res |-> "ok", empty |-> FALSE,
              execType |-> IF vt.present THEN vt.execType ELSE 2,
              sigMode  |-> IF vt.present THEN vt.sigMode ELSE 1,
              ops |-> MapSeq(dec, LAMBDA d : [to |-> d.to, value |-> d.value, data |-> d.data])]

\* A variant that takes only the empty signature 0x for a placeholder.
isFakeSignature_OnlyEmpty(signature) == signature = <<>>

\* A variant that takes a signature for a placeholder by its first digit.
isFakeSignature_FirstDigit(signature) == signature = <<>> \/ signature[1] = 0

\* /^0+$/ on the nibbles after 0x.
isFakeSignature(signature) ==
    \/ signature = <<>>
    \/ \A i \in 1..Len(signature) : signature[i] = 0

\* hasValidDestinationSignature of executeIntent: not 0x, longer than the
\* prefix, and not a placeholder.
hasValidDestinationSignature(destinationSignature) ==
    /\ destinationSignature # <<>>
    /\ Len(destinationSignature) > 0
    /\ ~isFakeSignature(destinationSignature)

\* ------------------------------------------------- chain execution service

\* ChainContext.transferFrom: ERC-20 transferFrom(relayer, to, amount).  The
\* flows do not call it.
transferFrom(to, amount) ==
    [fn |-> "transferFrom", from |-> RELAYER_ADDRESS, to |-> to, amount |-> amount]

\* A variant of transfer that encodes a transferFrom out of the relayer.
transfer_FromRelayer(to, amount) ==
    [fn |-> "transferFrom", from |-> RELAYER_ADDRESS, to |-> to, amount |-> amount]

\* ChainContext.transfer: erc20 transfer(to, amount) call data.
transfer(to, amount) == [fn |-> "transfer", to |-> to, amount |-> amount]

\* ChainContext.multicall: aggregate3(calls), none allowed to fail,
\* addressed to the chain's multicall contract.  The flows do not call it.
multicall(calls) ==
    [to |-> MULTICALL3_ADDRESS,
     callData |-> [fn |-> "aggregate3",
                   calls |-> MapSeq(calls, LAMBDA c : [target |-> c.to, allowFailure |-> FALSE,
                                                       callData |-> c.callData])]]

\* ChainContext.callFakeRouter: mockFill(calls) addressed to the router.
callFakeRouter(calls) ==
    [to |-> ROUTER_ADDRESS,
     callData |-> [fn |-> "mockFill",
                   mockFills |-> MapSeq(calls, LAMBDA c : [target |-> c.to, callData |-> c.callData])]]

\* ChainContext.intentExecutorCall: executeSinglechainOps({account, nonce,
\* ops: {data}, signature}) addressed to the intent executor.
intentExecutorCall(sponsor, nonce, ops, signature) ==
    [to |-> INTENT_EXECUTOR_ADDRESS,
     callData |-> [fn |-> "executeSinglechainOps", account |-> sponsor, nonce |-> nonce,
                   ops |-> ops, signature |-> signature]]

\* ------------------------------------------------------------ compiling

\* What a flow hands back before any I/O: res is "ok", "zod" (a ZodError was
\* thrown) or "error" (any other throw, error its message); plan is the list
\* of execute() calls the flow makes, in order.
Thrown(kind) ==
    [res |-> IF kind = "zod" THEN "zod" ELSE "error", error |-> kind, plan |-> <<>>]
Planned(txs) == [res |-> "ok", plan |-> txs]

setupCallsOf(signedIntent) ==
    MapSeq(signedIntent.setupOps, LAMBDA op : [to |-> op.to, callData |-> op.data])

\* A variant that lists the transfer calls last token-out first.
tokenTransferCallsOf_Reversed(transfers, recipient) ==
    LET calls == MapSeq(SelectSeq(transfers, LAMBDA t : t.address # zeroAddress),
                        LAMBDA t : [to |-> t.address, callData |-> transfer(recipient, t.value)])
    IN  [i \in 1..Len(calls) |-> calls[Len(calls) + 1 - i]]

tokenTransferCallsOf(transfers, recipient) ==
    MapSeq(SelectSeq(transfers, LAMBDA t : t.address # zeroAddress),
           LAMBDA t : [to |-> t.address, callData |-> transfer(recipient, t.value)])

\* A variant that adds up the amounts of all native token-outs.
RECURSIVE nativeTransferValueOf_Sum(_)
nativeTransferValueOf_Sum(transfers) ==
    IF transfers = <<>> THEN 0
    ELSE (IF Head(transfers).address = zeroAddress THEN Head(transfers).value ELSE 0)
         + nativeTransferValueOf_Sum(Tail(transfers))

\* tokenTransfers.filter(native).map(value)[0] ?? 0n
nativeTransferValueOf(transfers) ==
    LET natives == SelectSeq(transfers, LAMBDA t : t.address = zeroAddress)
    IN  IF natives = <<>> THEN 0 ELSE natives[1].value

\* A variant that dispatches every compiled call as a transaction of its own.
executeLegacyFlow_PerCall(executor, signedIntent, recipient) ==
    LET setupCalls == setupCallsOf(signedIntent)
        tt == toTokenTransfers(signedIntent.elements)
        tokenTransferCalls == tokenTransferCallsOf(tt.transfers, recipient)
        dops == toDestinationOps(signedIntent.elements)
        executions == setupCalls \o tokenTransferCalls \o dops.calls
        nativeTransferValue == nativeTransferValueOf(tt.transfers)
    IN  IF tt.res # "ok" THEN Thrown(tt.res)
        ELSE IF tokenTransferCalls # <<>> /\ ~executor THEN Thrown("error")
        ELSE IF dops.res # "ok" THEN Thrown("zod")
        ELSE IF executions = <<>> /\ nativeTransferValue = 0 THEN Planned(<<>>)
        ELSE IF ~executor THEN Thrown("error")
        ELSE IF executions = <<>> /\ nativeTransferValue > 0
             THEN Planned(<<[to |-> recipient, callData |-> [fn |-> "empty"],
                             value |-> nativeTransferValue]>>)
        ELSE Planned(MapSeq(executions,
                 LAMBDA e : [to |-> callFakeRouter(<<e>>).to,
                             callData |-> callFakeRouter(<<e>>).callData,
                             value |-> nativeTransferValue]))

\* A variant that sends a native amount without calls through the router.
executeLegacyFlow_NativeViaRouter(executor, signedIntent, recipient) ==
    LET setupCalls == setupCallsOf(signedIntent)
        tt == toTokenTransfers(signedIntent.elements)
        tokenTransferCalls == tokenTransferCallsOf(tt.transfers, recipient)
        dops == toDestinationOps(signedIntent.elements)
        executions == setupCalls \o tokenTransferCalls \o dops.calls
        nativeTransferValue == nativeTransferValueOf(tt.transfers)
    IN  IF tt.res # "ok" THEN Thrown(tt.res)
        ELSE IF tokenTransferCalls # <<>> /\ ~executor THEN Thrown("error")
        ELSE IF dops.res # "ok" THEN Thrown("zod")
        ELSE IF executions = <<>> /\ nativeTransferValue = 0 THEN Planned(<<>>)
        ELSE IF ~executor THEN Thrown("error")
        ELSE Planned(<<[to |-> callFakeRouter(executions).to,
                        callData |-> callFakeRouter(executions).callData,
                        value |-> nativeTransferValue]>>)

\* A variant that dispatches a call list of exactly one call directly.
executeLegacyFlow_DirectSingle(executor, signedIntent, recipient) ==
    LET setupCalls == setupCallsOf(signedIntent)
        tt == toTokenTransfers(signedIntent.elements)
        tokenTransferCalls == tokenTransferCallsOf(tt.transfers, recipient)
        dops == toDestinationOps(signedIntent.elements)
        executions == setupCalls \o tokenTransferCalls \o dops.calls
        nativeTransferValue == nativeTransferValueOf(tt.transfers)
    IN  IF tt.res # "ok" THEN Thrown(tt.res)
        ELSE IF tokenTransferCalls # <<>> /\ ~executor THEN Thrown("error")
        ELSE IF dops.res # "ok" THEN Thrown("zod")
        ELSE IF executions = <<>> /\ nativeTransferValue = 0 THEN Planned(<<>>)
        ELSE IF ~executor THEN Thrown("error")
        ELSE IF executions = <<>> /\ nativeTransferValue > 0
             THEN Planned(<<[to |-> recipient, callData |-> [fn |-> "empty"],
                             value |-> nativeTransferValue]>>)
        ELSE IF Len(executions) = 1
             THEN Planned(<<[to |-> executions[1].to, callData |-> executions[1].callData,
                             value |-> nativeTransferValue]>>)
        ELSE Planned(<<[to |-> callFakeRouter(executions).to,
                        callData |-> callFakeRouter(executions).callData,
                        value |-> nativeTransferValue]>>)

\* A variant that wraps a call list of two or more calls in a multicall.
executeLegacyFlow_Multicall(executor, signedIntent, recipient) ==
    LET setupCalls == setupCallsOf(signedIntent)
        tt == toTokenTransfers(signedIntent.elements)
        tokenTransferCalls == tokenTransferCallsOf(tt.transfers, recipient)
        dops == toDestinationOps(signedIntent.elements)
        executions == setupCalls \o tokenTransferCalls \o dops.calls
        nativeTransferValue == nativeTransferValueOf(tt.transfers)
    IN  IF tt.res # "ok" THEN Thrown(tt.res)
        ELSE IF tokenTransferCalls # <<>> /\ ~executor THEN Thrown("error")
        ELSE IF dops.res # "ok" THEN Thrown("zod")
        ELSE IF executions = <<>> /\ nativeTransferValue = 0 THEN Planned(<<>>)
        ELSE IF ~executor THEN Thrown("error")
        ELSE IF executions = <<>> /\ nativeTransferValue > 0
             THEN Planned(<<[to |-> recipient, callData |-> [fn |-> "empty"],
                             value |-> nativeTransferValue]>>)
        ELSE IF Len(executions) >= 2
             THEN Planned(<<[to |-> multicall(executions).to,
                             callData |-> multicall(executions).callData,
                             value |-> nativeTransferValue]>>)
        ELSE Planned(<<[to |-> callFakeRouter(executions).to,
                        callData |-> callFakeRouter(executions).callData,
                        value |-> nativeTransferValue]>>)

\* executor is TRUE when chainContexts()[destinationChain] is defined; using
\* an undefined executor throws a TypeError.
executeLegacyFlow(executor, signedIntent, recipient) ==
    LET setupCalls == setupCallsOf(signedIntent)
        tt == toTokenTransfers(signedIntent.elements)
        tokenTransferCalls == tokenTransferCallsOf(tt.transfers, recipient)
        dops == toDestinationOps(signedIntent.elements)
        executions == setupCalls \o tokenTransferCalls \o dops.calls
        nativeTransferValue == nativeTransferValueOf(tt.transfers)
    IN  IF tt.res # "ok" THEN Thrown(tt.res)
        ELSE IF tokenTransferCalls # <<>> /\ ~executor THEN Thrown("error")
        ELSE IF dops.res # "ok" THEN Thrown("zod")
        ELSE IF executions = <<>> /\ nativeTransferValue = 0 THEN Planned(<<>>)
        ELSE IF ~executor THEN Thrown("error")
        ELSE IF executions = <<>> /\ nativeTransferValue > 0
             THEN Planned(<<[to |-> recipient, callData |-> [fn |-> "empty"],
                             value |-> nativeTransferValue]>>)
        ELSE Planned(<<[to |-> callFakeRouter(executions).to,
                        callData |-> callFakeRouter(executions).callData,
                        value |-> nativeTransferValue]>>)

\* A variant that puts the intent-executor call first in the batch.
executeIntentExecutorFlow_ExecutorFirst(executor, signedIntent, sponsor, nonce, recipient, destinationOps, destinationSignature) ==
    LET setupCalls == setupCallsOf(signedIntent)
        tt == toTokenTransfers(signedIntent.elements)
        tokenTransferCalls == tokenTransferCallsOf(tt.transfers, recipient)
        nativeTransferValue == nativeTransferValueOf(tt.transfers)
        routerCalls == <<intentExecutorCall(sponsor, nonce, destinationOps, destinationSignature)>>
                       \o setupCalls \o tokenTransferCalls
    IN  IF tt.res # "ok" THEN Thrown(tt.res)
        ELSE IF ~executor THEN Thrown("error")
        ELSE Planned(<<[to |-> callFakeRouter(routerCalls).to,
                        callData |-> callFakeRouter(routerCalls).callData,
                        value |-> nativeTransferValue]>>)

executeIntentExecutorFlow(executor, signedIntent, sponsor, nonce, recipient, destinationOps, destinationSignature) ==
    LET setupCalls == setupCallsOf(signedIntent)
        tt == toTokenTransfers(signedIntent.elements)
        tokenTransferCalls == tokenTransferCallsOf(tt.transfers, recipient)
        nativeTransferValue == nativeTransferValueOf(tt.transfers)
        routerCalls == setupCalls \o tokenTransferCalls \o
                       <<intentExecutorCall(sponsor, nonce, destinationOps, destinationSignature)>>
    IN  IF tt.res # "ok" THEN Thrown(tt.res)
        ELSE IF ~executor THEN Thrown("error")
        ELSE Planned(<<[to |-> callFakeRouter(routerCalls).to,
                        callData |-> callFakeRouter(routerCalls).callData,
                        value |-> nativeTransferValue]>>)

\* The part of executeIntent that runs before the first transaction is
\* sent: lines 44-82 up to the flows' execute() calls.
executeIntent(signedIntent) ==
    IF signedIntent.elements = <<>> THEN Thrown("error")
    ELSE
    LET sponsor == signedIntent.sponsor
        recipient == signedIntent.elements[1].mandate.recipient
        destinationChain == signedIntent.elements[1].mandate.destinationChainId
        nonce == signedIntent.nonce
        executor == chainContexts(destinationChain)
        destinationOps == toDestinationOpsEncoded(signedIntent.elements)
        destinationSignature ==
            IF signedIntent.destinationSignature.present
            THEN signedIntent.destinationSignature.hex ELSE <<>>
        hasDestinationOps == ~destinationOps.empty
    IN  IF destinationOps.res # "ok" THEN Thrown("zod")
        ELSE IF hasDestinationOps /\ ~hasValidDestinationSignature(destinationSignature)
             THEN Thrown("Destination signature required for destination operations")
        ELSE IF hasDestinationOps
             THEN executeIntentExecutorFlow(executor, signedIntent, sponsor, nonce,
                                            recipient, destinationOps, destinationSignature)
        ELSE executeLegacyFlow(executor, signedIntent, recipient)

\* A variant that stores the record under the status of the response.
CompletedRecord_Pending(recipient, destinationChain, timestamp, txHash) ==
    [userAddress |-> recipient, destinationChainId |-> destinationChain,
     status |-> "PENDING", fillTimestamp |-> timestamp,
     fillTransactionHash |-> txHash, claims |-> <<>>]

\* The record executeIntent stores on completion.
CompletedRecord(recipient, destinationChain, timestamp, txHash) ==
    [userAddress |-> recipient, destinationChainId |-> destinationChain,
     status |-> "COMPLETED", fillTimestamp |-> timestamp,
     fillTransactionHash |-> txHash, claims |-> <<>>]

\* ------------------------------------------------------------ the route

\* A variant that takes the last listed chain instead of the first.
extractSourceChain_Last(accountAccessList) ==
    IF accountAccessList.shape = "absent" THEN [res |-> "NaN"]
    ELSE IF accountAccessList.shape = "array" /\ Len(accountAccessList.entries) > 0
         THEN [res |-> "ok",
               chain |-> accountAccessList.entries[Len(accountAccessList.entries)].chainId]
    ELSE IF accountAccessList.shape = "object" /\ Len(accountAccessList.chainIds) > 0
         THEN [res |-> "ok",
               chain |-> accountAccessList.chainIds[Len(accountAccessList.chainIds)]]
    ELSE [res |-> "error"]

\* extractSourceChain: absent is the access list left out.  chainContexts is
\* a function, Object.keys of it is empty and parseInt(undefined) is NaN.
extractSourceChain(accountAccessList) ==
    IF accountAccessList.shape = "absent" THEN [res |-> "NaN"]
    ELSE IF accountAccessList.shape = "array" /\ Len(accountAccessList.entries) > 0
         THEN [res |-> "ok", chain |-> accountAccessList.entries[1].chainId]
    ELSE IF accountAccessList.shape = "object" /\ Len(accountAccessList.chainIds) > 0
         THEN [res |-> "ok", chain |-> accountAccessList.chainIds[1]]
    ELSE [res |-> "error"]

\* qualifier: the settlement context of the quote, from the comparison of
\* the source chain with the requested destination chain.
qualifier(sourceChain, destinatinoChain) ==
    IF sourceChain = destinatinoChain
    THEN [settlementContext |-> [settlementLayer |-> "SAME_CHAIN",
                                 fundingMethod |-> "PERMIT2", using7579 |-> TRUE],
          encodedVal |-> "0xff"]
    ELSE [settlementContext |-> [settlementLayer |-> "ACROSS",
                                 fundingMethod |-> "PERMIT2", using7579 |-> TRUE],
          encodedVal |-> "0xff"]

\* A variant that names the source chain as the mandate's destination chain.
create_intent_route_SourceChain(userIntent, randomBigInt, currentDate) ==
    LET sponsor == userIntent.account.address
        expires == currentDate + 3600
        source == extractSourceChain(userIntent.accountAccessList)
    IN  IF source.res # "ok" THEN [res |-> "error"]
        ELSE [res |-> "ok",
              intentOp |->
                [sponsor |-> sponsor, nonce |-> randomBigInt, expires |-> expires,
                 elements |-> <<[arbiter |-> "dead..beef", chainId |-> source.chain,
                     mandate |-> [recipient |-> sponsor,
                                  tokenOut |-> MapSeq(userIntent.tokenRequests,
                                      LAMBDA t : [kind |-> "pair",
                                                  id |-> [hi |-> 0, lo |-> t.tokenAddress],
                                                  amount |-> t.amount]),
                                  destinationChainId |-> source.chain,
                                  fillDeadline |-> expires,
                                  destinationOps |->
                                      [shape |-> "array",
                                       ops |-> userIntent.destinationExecutions],
                                  qualifier |-> qualifier(source.chain,
                                      userIntent.destinationChainId)]]>>,
                 setupOps |-> userIntent.account.setupOps]]

\* create_intent_route: the quote for a user intent.  BigInt(sourceChain)
\* throws a RangeError on NaN; destinationExecutions ?? [] is the empty
\* sequence when left out.
create_intent_route(userIntent, randomBigInt, currentDate) ==
    LET sponsor == userIntent.account.address
        expires == currentDate + 3600
        source == extractSourceChain(userIntent.accountAccessList)
    IN  IF source.res # "ok" THEN [res |-> "error"]
        ELSE [res |-> "ok",
              intentOp |->
                [sponsor |-> sponsor, nonce |-> randomBigInt, expires |-> expires,
                 elements |-> <<[arbiter |-> "dead..beef", chainId |-> source.chain,
                     mandate |-> [recipient |-> sponsor,
                                  tokenOut |-> MapSeq(userIntent.tokenRequests,
                                      LAMBDA t : [kind |-> "pair",
                                                  id |-> [hi |-> 0, lo |-> t.tokenAddress],
                                                  amount |-> t.amount]),
                                  destinationChainId |-> userIntent.destinationChainId,
                                  fillDeadline |-> expires,
                                  destinationOps |->
                                      [shape |-> "array",
                                       ops |-> userIntent.destinationExecutions],
                                  qualifier |-> qualifier(source.chain,
                                      userIntent.destinationChainId)]]>>,
                 setupOps |-> userIntent.account.setupOps]]

\* createSignedIntent of the tests: the intentOp with all-zero signatures.
\* schemaOk: the quote passes the submission schema.
createSignedIntent(intentOp) ==
    [schemaOk |-> TRUE, sponsor |-> intentOp.sponsor, nonce |-> intentOp.nonce,
     expires |-> intentOp.expires, elements |-> intentOp.elements,
     destinationSignature |-> [present |-> TRUE, hex |-> <<0, 0>>],
     setupOps |-> intentOp.setupOps]

\* ---------------------------------------------------------- intent store

\* bigint.toString(): the decimal digits.
RECURSIVE toString(_)
toString(n) == IF n < 10 THEN <<n>> ELSE toString(n \div 10) \o <<n % 10>>

\* BigInt(str) of a string of decimal digits.
RECURSIVE BigInt(_)
BigInt(str) ==
    IF str = <<>> THEN 0 ELSE BigInt(SubSeq(str, 1, Len(str) - 1)) * 10 + str[Len(str)]

\* A variant that starts the map afresh on every put.
addNewIntent_Clobber(store, id, intent) == [k \in {toString(id)} |-> intent]

\* A variant that keeps the record an id already has.
addNewIntent_FirstWins(store, id, intent) ==
    [k \in DOMAIN store \cup {toString(id)} |->
        IF k \in DOMAIN store THEN store[k] ELSE intent]

\* intents[id.toString()] = intent
addNewIntent(store, id, intent) ==
    [k \in DOMAIN store \cup {toString(id)} |->
        IF k = toString(id) THEN intent ELSE store[k]]

\* A variant that hands back the missing entry instead of throwing.
getIntentById_NoThrow(store, intentId) ==
    IF toString(intentId) \in DOMAIN store
    THEN [found |-> TRUE, intent |-> store[toString(intentId)]]
    ELSE [found |-> TRUE, intent |-> [undefined |-> TRUE]]

\* intents[intentId.toString()], or IntentNotFoundError.
getIntentById(store, intentId) ==
    IF toString(intentId) \in DOMAIN store
    THEN [found |-> TRUE, intent |-> store[toString(intentId)]]
    ELSE [found |-> FALSE]

\* ------------------------------------------------------------ the chains

\* Accounts whose balances the model follows on each configured chain.
Holders == {ROUTER_ADDRESS, USER_ADDRESS, RECIPIENT_ADDRESS}

Failed(w) == [ok |-> FALSE, w |-> w]
Done(w) == [ok |-> TRUE, w |-> w]

\* A signature the intent executor verifies for the account: the byte 0x01.
\* Every other byte string is rejected (InvalidStandaloneIntentSignature).
SigVerifies(signature) == signature = <<0, 1>>

\* ERC-20 transfer(to, amount) of the USDC token, called by sender.
Erc20Transfer(w, sender, to, amount) ==
    IF sender \in Holders /\ to \in Holders /\ w.usdc[sender] >= amount
    THEN Done([w EXCEPT !.usdc = [a \in Holders |->
                 w.usdc[a] - (IF a = sender THEN amount ELSE 0)
                           + (IF a = to THEN amount ELSE 0)]])
    ELSE Failed(w)

\* One call of a batch made by sender: target.call(callData).
CallTarget(w, sender, target, callData) ==
    IF callData.fn = "revert" THEN Failed(w)
    ELSE IF callData.fn = "transfer" /\ target = USDC
         THEN Erc20Transfer(w, sender, callData.to, callData.amount)
    ELSE Done(w)

\* The calls of a batch in order, each by sender; the first failure reverts
\* the batch: require(success) in MockRouter.mockFill.
RECURSIVE RunCalls(_, _, _)
RunCalls(w, sender, calls) ==
    IF calls = <<>> THEN Done(w)
    ELSE LET r == CallTarget(w, sender, Head(calls).target, Head(calls).callData)
         IN  IF r.ok THEN RunCalls(r.w, sender, Tail(calls)) ELSE Failed(w)

\* executeSinglechainOps on the intent executor: checks the signature and the
\* nonce, then has the account execute the ops (msg.sender is the account).
executeSinglechainOps(w, signedOps) ==
    IF ~SigVerifies(signedOps.signature) THEN Failed(w)
    ELSE IF <<signedOps.account, signedOps.nonce>> \in w.consumed THEN Failed(w)
    ELSE LET w1 == [w EXCEPT !.consumed = @ \cup {<<signedOps.account, signedOps.nonce>>}]
             r == RunCalls(w1, signedOps.account,
                           MapSeq(signedOps.ops.ops,
                                  LAMBDA op : [target |-> op.to, callData |-> op.data]))
         IN  IF r.ok THEN r ELSE Failed(w)

\* A variant without require(success): a failed call is skipped.
RECURSIVE mockFill_NoRequire(_, _, _)
mockFill_NoRequire(w, value, mockFills) ==
    IF value > 0 THEN Failed(w)
    ELSE IF mockFills = <<>> THEN Done(w)
    ELSE LET c == Head(mockFills)
             r == IF c.callData.fn = "executeSinglechainOps" /\ c.target = INTENT_EXECUTOR_ADDRESS
                  THEN executeSinglechainOps(w, c.callData)
                  ELSE CallTarget(w, ROUTER_ADDRESS, c.target, c.callData)
         IN  mockFill_NoRequire(r.w, value, Tail(mockFills))

\* MockRouter.mockFill(mockFills): every call is made by the router and must
\* succeed; the function is not payable.
RECURSIVE mockFill(_, _, _)
mockFill(w, value, mockFills) ==
    IF value > 0 THEN Failed(w)
    ELSE IF mockFills = <<>> THEN Done(w)
    ELSE LET c == Head(mockFills)
             r == IF c.callData.fn = "executeSinglechainOps" /\ c.target = INTENT_EXECUTOR_ADDRESS
                  THEN executeSinglechainOps(w, c.callData)
                  ELSE CallTarget(w, ROUTER_ADDRESS, c.target, c.callData)
             rest == mockFill(r.w, value, Tail(mockFills))
         IN  IF ~r.ok THEN Failed(w)
             ELSE IF rest.ok THEN rest ELSE Failed(w)

\* The transaction as the chain mines it: the new state, or a reversion that
\* leaves the state as it was.
EvmExecute(w, tx) ==
    IF tx.callData.fn = "mockFill" /\ tx.to = ROUTER_ADDRESS
    THEN mockFill(w, tx.value, tx.callData.mockFills)
    ELSE IF tx.to \in Holders
         THEN Done([w EXCEPT !.eth = [@ EXCEPT ![tx.to] = @ + tx.value]])
    ELSE Done(w)

\* --------------------------------------------------------------- inputs

Nonces == {7, 12}

Pair(token, amount) == [kind |-> "pair", id |-> [hi |-> 0, lo |-> token], amount |-> amount]
\* A token-out tuple that is not two integers.
BadTuple == [kind |-> "bad"]

Op(to, data) == [wf |-> "full", to |-> to, value |-> 0, data |-> data]
\* A legacy {to, data} descriptor.
OpNoValue(to, data) == [wf |-> "novalue", to |-> to, value |-> 0, data |-> data]

NoVt == [present |-> FALSE]
Vt(e, m) == [present |-> TRUE, execType |-> e, sigMode |-> m]

NoDestinationOps == [shape |-> "none"]
LegacyOps(ops) == [shape |-> "array", ops |-> ops]
TaggedOps(vt, ops) == [shape |-> "tagged", vt |-> vt, ops |-> ops]

Absent == [present |-> FALSE]
Sig(hex) == [present |-> TRUE, hex |-> hex]

\* A token-out tuple whose id is wider than 20 bytes.
WidePair(token, amount) == [kind |-> "pair", id |-> [hi |-> 1, lo |-> token], amount |-> amount]

TokenOuts ==
    {<<>>, <<Pair(USDC, 1)>>, <<Pair(USDC, 2)>>, <<Pair(zeroAddress, 1)>>,
     <<Pair(USDC, 1), Pair(zeroAddress, 1)>>, <<BadTuple>>, <<WidePair(USDC, 1)>>}

DestOpsChoices ==
    {NoDestinationOps,
     LegacyOps(<<Op(USDC, transfer(RECIPIENT_ADDRESS, 1))>>),
     TaggedOps(NoVt, <<>>),
     TaggedOps(Vt(2, 0), <<Op(USDC, transfer(RECIPIENT_ADDRESS, 1))>>),
     TaggedOps(NoVt, <<OpNoValue(USDC, transfer(RECIPIENT_ADDRESS, 1))>>)}

Signatures == {Absent, Sig(<<>>), Sig(<<0, 0>>), Sig(<<0, 1>>), Sig(<<10, 11>>)}

SetupOpsChoices == {<<>>, <<[to |-> USER_ADDRESS, data |-> [fn |-> "revert"]]>>}

Element(recipient, chain, tokenOut, destinationOps) ==
    [mandate |-> [recipient |-> recipient, destinationChainId |-> chain,
                  tokenOut |-> tokenOut, destinationOps |-> destinationOps]]

SignedIntent(nonce, elements, signature, setupOps, schemaOk) ==
    [schemaOk |-> schemaOk, sponsor |-> USER_ADDRESS, nonce |-> nonce,
     elements |-> elements, destinationSignature |-> signature, setupOps |-> setupOps]

\* The plain submission: one USDC to the user on Base Sepolia, no
\* destination ops, placeholder signature.
LegacyProfile ==
    [recipient |-> USER_ADDRESS, chain |-> BASE_SEPOLIA_CHAIN_ID,
     tokenOut |-> <<Pair(USDC, 1)>>, destinationOps |-> NoDestinationOps,
     signature |-> Sig(<<0, 0>>), setupOps |-> <<>>, schemaOk |-> TRUE]

\* The same with a tagged destination op and a signature the executor accepts.
ExecutorProfile ==
    [LegacyProfile EXCEPT
        !.destinationOps = TaggedOps(Vt(2, 0), <<Op(USDC, transfer(RECIPIENT_ADDRESS, 1))>>),
        !.signature = Sig(<<0, 1>>)]

\* The same again under the all-zero placeholder signature.
UnsignedProfile == [ExecutorProfile EXCEPT !.signature = Sig(<<0, 0>>)]

Choices ==
    [recipient : {USER_ADDRESS, RECIPIENT_ADDRESS},
     chain : ConfiguredChains \cup UnknownChains,
     tokenOut : TokenOuts, destinationOps : DestOpsChoices,
     signature : Signatures, setupOps : SetupOpsChoices, schemaOk : BOOLEAN]

Deviation(c, profile) == Cardinality({f \in DOMAIN c : c[f] # profile[f]})

\* Submissions differ from a profile in at most one respect, or name an
\* unconfigured chain with nothing to transfer.
RequestChoices ==
    {c \in Choices : \/ Deviation(c, LegacyProfile) <= 1
                     \/ Deviation(c, ExecutorProfile) <= 1
                     \/ Deviation(c, UnsignedProfile) <= 1}
    \cup {[LegacyProfile EXCEPT !.chain = u, !.tokenOut = t] :
            u \in UnknownChains, t \in {<<>>, <<Pair(zeroAddress, 1)>>}}

FromChoice(n, c) ==
    SignedIntent(n, <<Element(c.recipient, c.chain, c.tokenOut, c.destinationOps)>>,
                 c.signature, c.setupOps, c.schemaOk)

\* Submissions of two elements: a setup op, a token-out in each element,
\* and a destination op in the flat or in the tagged shape.
TwoElementRequests ==
    {SignedIntent(7, <<Element(USER_ADDRESS, BASE_SEPOLIA_CHAIN_ID,
                               <<Pair(USDC, 1), Pair(zeroAddress, 1)>>, d[1]),
                       Element(RECIPIENT_ADDRESS, SEPOLIA_CHAIN_ID,
                               <<Pair(zeroAddress, 2), Pair(USDC, 2)>>, d[2])>>,
                  d[3], <<[to |-> USER_ADDRESS, data |-> [fn |-> "revert"]]>>, TRUE) :
        d \in {<<NoDestinationOps, LegacyOps(<<Op(USDC, transfer(RECIPIENT_ADDRESS, 1))>>),
                Sig(<<0, 0>>)>>,
               <<TaggedOps(Vt(2, 0), <<Op(USDC, transfer(RECIPIENT_ADDRESS, 1))>>),
                 NoDestinationOps, Sig(<<0, 1>>)>>}}

Requests ==
    {FromChoice(7, c) : c \in RequestChoices}
    \cup TwoElementRequests
    \cup {FromChoice(12, c) : c \in {LegacyProfile, ExecutorProfile,
                                     [LegacyProfile EXCEPT !.tokenOut = <<>>]}}

\* Route requests: destination chain, one token request, the account, the
\* access list and the destination executions.
AccessLists ==
    {[shape |-> "absent"],
     [shape |-> "array", entries |-> <<>>],
     [shape |-> "array", entries |-> <<[chainId |-> BASE_SEPOLIA_CHAIN_ID]>>],
     [shape |-> "object", chainIds |-> <<>>],
     [shape |-> "object", chainIds |-> <<SEPOLIA_CHAIN_ID>>],
     [shape |-> "object", chainIds |-> <<SEPOLIA_CHAIN_ID, BASE_SEPOLIA_CHAIN_ID>>]}

RouteAmounts == {1, RouterFunds + 1}

UserIntentChoices ==
    [destinationChainId : ConfiguredChains \cup UnknownChains,
     tokenRequests : {<<[tokenAddress |-> USDC, amount |-> a]>> : a \in RouteAmounts},
     account : {[address |-> u, setupOps |-> <<>>] : u \in {USER_ADDRESS, RECIPIENT_ADDRESS}},
     accountAccessList : AccessLists,
     destinationExecutions : {<<>>, <<Op(USDC, transfer(RECIPIENT_ADDRESS, 1))>>}]

\* The plain quote: one USDC for the user, from and to Base Sepolia.
RouteProfile ==
    [destinationChainId |-> BASE_SEPOLIA_CHAIN_ID,
     tokenRequests |-> <<[tokenAddress |-> USDC, amount |-> 1]>>,
     account |-> [address |-> USER_ADDRESS, setupOps |-> <<>>],
     accountAccessList |-> [shape |-> "array", entries |-> <<[chainId |-> BASE_SEPOLIA_CHAIN_ID]>>],
     destinationExecutions |-> <<>>]

\* Quotes asked for differ from the plain one in at most one respect.
UserIntents == {u \in UserIntentChoices : Deviation(u, RouteProfile) <= 1}

\* The submissions made while the status is being polled.
StatusRequests ==
    {FromChoice(n, c) : n \in Nonces,
                        c \in {LegacyProfile, ExecutorProfile, UnsignedProfile,
                               [LegacyProfile EXCEPT !.tokenOut = <<>>],
                               [LegacyProfile EXCEPT !.chain = SEPOLIA_CHAIN_ID]}}

\* Ids and records put directly on the store.
StoreIds == {7, 12, 107}
StoreRecords ==
    {CompletedRecord(USER_ADDRESS, BASE_SEPOLIA_CHAIN_ID, 0, 1),
     CompletedRecord(USER_ADDRESS, SEPOLIA_CHAIN_ID, 1, 2),
     [CompletedRecord(RECIPIENT_ADDRESS, BASE_SEPOLIA_CHAIN_ID, 0, ZeroHash)
         EXCEPT !.status = "PENDING"]}

\* Path ids of GET /intent-operation/:id as characters: 0..9 are the digits,
\* 33 is a character that is no digit.
PathIds == {<<7>>, <<0, 7>>, <<1, 2>>, <<3>>, <<33>>}

\* ---------------------------------------------------------------- state

Handlers == {"h1"}

VARIABLES
    intents,     \* the intent record store: key string -> record
    world,       \* per configured chain: token and native balances, consumed nonces
    txs,         \* the transactions sent so far, in order
    hs,          \* per request handler: where it is in intent_store
    now,         \* the wall clock, seconds
    submitted,   \* submissions accepted so far
    statusResp,  \* the last answer of GET /intent-operation/:id
    routed,      \* the last answer of POST /intents/route
    putLog,      \* history: the puts made directly on the store, in order
    got,         \* the last result of a get made directly on the store
    portfolioResp, \* the last answer of GET /accounts/:userAddress/portfolio
    applied      \* the last application of a decoder or encoder by itself

vars == <<intents, world, txs, hs, now, submitted, statusResp, routed, putLog, got, portfolioResp, applied>>

NoResponse == [code |-> 0]
NotFound == [found |-> FALSE]
NotApplied == [fn |-> "none"]

\* A handler: pc is where it stands; req the submission; todo the execute()
\* calls still to make and tx the last one made; sent how many transactions
\* the submission has sent; hash and receipt those of the last one; wrote
\* whether the submission has stored a record; prior the record an
\* identical, completed submission by this handler had left under the nonce
\* when this one arrived; resp the HTTP answer.
IdleHandler ==
    [pc |-> "idle", req |-> [none |-> TRUE], todo |-> <<>>, tx |-> [none |-> TRUE],
     sent |-> 0, hash |-> ZeroHash, receipt |-> "none", wrote |-> FALSE,
     prior |-> NotFound, resp |-> NoResponse]

InitWorld ==
    [c \in ConfiguredChains |->
        [usdc |-> [a \in Holders |-> IF a = ROUTER_ADDRESS THEN RouterFunds ELSE 0],
         eth |-> [a \in Holders |-> 0],
         consumed |-> {}]]

Init ==
    /\ intents = <<>>
    /\ world = InitWorld
    /\ txs = <<>>
    /\ hs = [h \in Handlers |-> IdleHandler]
    /\ now = 0
    /\ submitted = 0
    /\ statusResp = NoResponse
    /\ routed = NoResponse
    /\ putLog = <<>>
    /\ got = [id |-> 0, result |-> NotFound]
    /\ portfolioResp = NoResponse
    /\ applied = NotApplied

\* A handler between addNewIntent and its response runs in microtasks only:
\* nothing else is scheduled until it has answered.
NoMicrotask == \A h \in DOMAIN hs : hs[h].pc # "stored"

\* A variant that takes the recipient from the last element.
recipientOf_Last(req) == req.elements[Len(req.elements)].mandate.recipient

recipientOf(req) == req.elements[1].mandate.recipient
destinationChainOf(req) == req.elements[1].mandate.destinationChainId

\* The record this handler's identical previous submission left, if it is
\* still the one in the store.
PriorOf(h, req) ==
    IF /\ hs[h].pc = "done"
       /\ hs[h].req = req
       /\ hs[h].wrote
       /\ getIntentById(intents, req.nonce).found
       /\ getIntentById(intents, req.nonce).intent.fillTransactionHash = hs[h].hash
    THEN getIntentById(intents, req.nonce)
    ELSE NotFound

\* intent_store up to the first transaction: schema, decoding, compiling.  A
\* throw is answered at once; an empty plan returns the zero hash and the
\* record is stored; otherwise the first transaction is handed to the chain.
intent_store(h, req) ==
    /\ NoMicrotask
    /\ hs[h].pc \in {"idle", "done"}
    /\ submitted < MaxSubmit
    /\ submitted' = submitted + 1
    /\ LET out == IF req.schemaOk THEN executeIntent(req) ELSE Thrown("zod")
           fresh == [IdleHandler EXCEPT !.req = req, !.prior = PriorOf(h, req)]
       IN  IF out.res = "zod"
           THEN /\ hs' = [hs EXCEPT ![h] = [fresh EXCEPT !.pc = "done",
                                               !.resp = [code |-> 400, error |-> out.error]]]
                /\ UNCHANGED intents
           ELSE IF out.res = "error"
           THEN /\ hs' = [hs EXCEPT ![h] = [fresh EXCEPT !.pc = "done",
                                               !.resp = [code |-> 500, error |-> out.error]]]
                /\ UNCHANGED intents
           ELSE IF out.plan = <<>>
           THEN /\ hs' = [hs EXCEPT ![h] = [fresh EXCEPT !.pc = "stored", !.hash = ZeroHash,
                                                          !.wrote = TRUE]]
                /\ intents' = addNewIntent(intents, req.nonce,
                                  CompletedRecord(recipientOf(req), destinationChainOf(req),
                                                  now, ZeroHash))
           ELSE /\ hs' = [hs EXCEPT ![h] = [fresh EXCEPT !.pc = "sending", !.todo = out.plan]]
                /\ UNCHANGED intents
    /\ UNCHANGED <<world, txs, now, statusResp, routed, putLog, got, portfolioResp, applied>>

\* walletClient.sendTransactionSync: the chain mines the handler's next
\* transaction.
sendTransactionSync(h) ==
    /\ NoMicrotask
    /\ hs[h].pc = "sending"
    /\ LET c == destinationChainOf(hs[h].req)
           r == EvmExecute(world[c], Head(hs[h].todo))
           status == IF r.ok THEN "success" ELSE "reverted"
       IN  /\ world' = [world EXCEPT ![c] = r.w]
           /\ txs' = Append(txs, [chain |-> c, status |-> status, by |-> h])
           /\ hs' = [hs EXCEPT ![h] = [@ EXCEPT !.pc = "receipt", !.todo = Tail(@),
                                         !.tx = Head(hs[h].todo),
                                         !.sent = @ + 1, !.hash = Len(txs) + 1,
                                         !.receipt = status]]
    /\ UNCHANGED <<intents, now, submitted, statusResp, routed, putLog, got, portfolioResp, applied>>

\* A variant that stores a FAILED record when the receipt is reverted.
execute_RecordsFailure(h) ==
    /\ NoMicrotask
    /\ hs[h].pc = "receipt"
    /\ IF hs[h].receipt = "reverted"
       THEN /\ hs' = [hs EXCEPT ![h] = [@ EXCEPT !.pc = "done", !.wrote = TRUE,
                                         !.resp = [code |-> 500, error |-> "reverted"]]]
            /\ intents' = addNewIntent(intents, hs[h].req.nonce,
                              [CompletedRecord(recipientOf(hs[h].req),
                                               destinationChainOf(hs[h].req),
                                               now, hs[h].hash)
                                  EXCEPT !.status = "FAILED"])
       ELSE IF hs[h].todo # <<>>
       THEN /\ hs' = [hs EXCEPT ![h] = [@ EXCEPT !.pc = "sending"]]
            /\ UNCHANGED intents
       ELSE /\ hs' = [hs EXCEPT ![h] = [@ EXCEPT !.pc = "stored", !.wrote = TRUE]]
            /\ intents' = addNewIntent(intents, hs[h].req.nonce,
                              CompletedRecord(recipientOf(hs[h].req),
                                              destinationChainOf(hs[h].req),
                                              now, hs[h].hash))
    /\ UNCHANGED <<world, txs, now, submitted, statusResp, routed, putLog, got, portfolioResp, applied>>

\* ChainContext.execute returns: a reverted receipt throws (answered 500,
\* "Transaction ... reverted");
\* after the last transaction executeIntent stores the record.
execute(h) ==
    /\ NoMicrotask
    /\ hs[h].pc = "receipt"
    /\ IF hs[h].receipt = "reverted"
       THEN /\ hs' = [hs EXCEPT ![h] = [@ EXCEPT !.pc = "done",
                                         !.resp = [code |-> 500, error |-> "reverted"]]]
            /\ UNCHANGED intents
       ELSE IF hs[h].todo # <<>>
       THEN /\ hs' = [hs EXCEPT ![h] = [@ EXCEPT !.pc = "sending"]]
            /\ UNCHANGED intents
       ELSE /\ hs' = [hs EXCEPT ![h] = [@ EXCEPT !.pc = "stored", !.wrote = TRUE]]
            /\ intents' = addNewIntent(intents, hs[h].req.nonce,
                              CompletedRecord(recipientOf(hs[h].req),
                                              destinationChainOf(hs[h].req),
                                              now, hs[h].hash))
    /\ UNCHANGED <<world, txs, now, submitted, statusResp, routed, putLog, got, portfolioResp, applied>>

\* A variant that answers with the status of the stored record.
respond_StoredStatus(h) ==
    /\ hs[h].pc = "stored"
    /\ hs' = [hs EXCEPT ![h] = [@ EXCEPT !.pc = "done",
                 !.resp = [code |-> 201, id |-> hs[h].req.nonce,
                           status |-> intents[toString(hs[h].req.nonce)].status]]]
    /\ UNCHANGED <<intents, world, txs, now, submitted, statusResp, routed, putLog, got, portfolioResp, applied>>

\* resp.status(201).json({result: {id, status: "PENDING"}})
respond(h) ==
    /\ hs[h].pc = "stored"
    /\ hs' = [hs EXCEPT ![h] = [@ EXCEPT !.pc = "done",
                 !.resp = [code |-> 201, id |-> hs[h].req.nonce, status |-> "PENDING"]]]
    /\ UNCHANGED <<intents, world, txs, now, submitted, statusResp, routed, putLog, got, portfolioResp, applied>>

\* zGetIntentOperationByIdData: the path id is a string of decimal digits.
zGetIntentOperationByIdData(path) ==
    path # <<>> /\ \A i \in 1..Len(path) : path[i] \in 0..9

\* getIntentStatus and the answer intent_status gives for a path id.
StatusAnswer(store, path) ==
    IF ~zGetIntentOperationByIdData(path) THEN [code |-> 400, path |-> path]
    ELSE LET r == getIntentById(store, BigInt(path))
         IN  IF r.found THEN [code |-> 200, path |-> path, body |-> r.intent]
             ELSE [code |-> 404, path |-> path]

\* GET /intent-operation/:id
intent_status(path) ==
    /\ NoMicrotask
    /\ statusResp' = StatusAnswer(intents, path)
    /\ UNCHANGED <<intents, world, txs, hs, now, submitted, routed, putLog, got, portfolioResp, applied>>

\* A second passes.
Tick ==
    /\ NoMicrotask
    /\ now < MaxTime
    /\ now' = now + 1
    /\ UNCHANGED <<intents, world, txs, hs, submitted, statusResp, routed, putLog, got, portfolioResp, applied>>

Next ==
    \/ \E h \in DOMAIN hs, req \in Requests : intent_store(h, req)
    \/ \E h \in DOMAIN hs : sendTransactionSync(h)
    \/ \E h \in DOMAIN hs : execute(h)
    \/ \E h \in DOMAIN hs : respond(h)
    \/ Tick

Spec == Init /\ [][Next]_vars

\* Submissions while a client polls the status endpoint.
NextStatus ==
    \/ \E h \in DOMAIN hs, req \in StatusRequests : intent_store(h, req)
    \/ \E h \in DOMAIN hs : sendTransactionSync(h)
    \/ \E h \in DOMAIN hs : execute(h)
    \/ \E h \in DOMAIN hs : respond(h)
    \/ \E path \in PathIds : intent_status(path)

SpecStatus == Init /\ [][NextStatus]_vars

\* POST /intents/route: the quote, under a random nonce.  The client asks
\* while no submission is in flight and it has one still to make.
intent_route(userIntent, randomBigInt) ==
    /\ \A h \in DOMAIN hs : hs[h].pc \in {"idle", "done"}
    /\ submitted < MaxSubmit
    /\ LET body == create_intent_route(userIntent, randomBigInt, now)
       IN  routed' = IF body.res = "ok"
                     THEN [code |-> 201, for |-> userIntent, intentOp |-> body.intentOp]
                     ELSE [code |-> 500, for |-> userIntent]
    /\ UNCHANGED <<intents, world, txs, hs, now, submitted, statusResp, putLog, got, portfolioResp, applied>>

\* The client signs the quote with placeholders and submits it.
submit_routed(h) ==
    /\ routed.code = 201
    /\ intent_store(h, createSignedIntent(routed.intentOp))

NextE2E ==
    \/ \E u \in UserIntents, n \in Nonces : intent_route(u, n)
    \/ \E h \in DOMAIN hs : submit_routed(h)
    \/ \E h \in DOMAIN hs : sendTransactionSync(h)
    \/ \E h \in DOMAIN hs : execute(h)
    \/ \E h \in DOMAIN hs : respond(h)
    \/ \E path \in PathIds : intent_status(path)
    \/ Tick

SpecE2E == Init /\ [][NextE2E]_vars

\* The route by itself, over every quote the client can ask for.
NextRoute ==
    \/ \E u \in UserIntentChoices, n \in Nonces : intent_route(u, n)
    \/ Tick

SpecRoute == Init /\ [][NextRoute]_vars

\* put(id, record) on the store by itself.
put(id, intent) ==
    /\ Len(putLog) < MaxPuts
    /\ intents' = addNewIntent(intents, id, intent)
    /\ putLog' = Append(putLog, [id |-> id, intent |-> intent])
    /\ UNCHANGED <<world, txs, hs, now, submitted, statusResp, routed, got, portfolioResp, applied>>

\* get(id) on the store by itself.
get(id) ==
    /\ got' = [id |-> id, result |-> getIntentById(intents, id)]
    /\ UNCHANGED <<intents, world, txs, hs, now, submitted, statusResp, routed, putLog, portfolioResp, applied>>

NextStore ==
    \/ \E id \in StoreIds, intent \in StoreRecords : put(id, intent)
    \/ \E id \in StoreIds : get(id)

SpecStore == Init /\ [][NextStore]_vars

\* ------------------------------------------------------------ properties

\* What a submission asks for, read off the request itself.
tokenOutOf(req) == Flatten(MapSeq(req.elements, LAMBDA e : e.mandate.tokenOut))
destOpsOf(req) == Flatten(MapSeq(req.elements, LAMBDA e : opsArray(e.mandate.destinationOps)))
taggedDestOpsOf(req) ==
    Flatten(MapSeq(req.elements, LAMBDA e : taggedOps(e.mandate.destinationOps)))
IsNative(t) == t.kind = "pair" /\ t.id.hi = 0 /\ t.id.lo = zeroAddress

\* No setup op, no token to transfer, no destination op, no native value.
NothingToDo(req) ==
    /\ req.setupOps = <<>>
    /\ destOpsOf(req) = <<>>
    /\ \A i \in 1..Len(tokenOutOf(req)) : IsNative(tokenOutOf(req)[i])
    /\ tokenOutOf(req) # <<>> => tokenOutOf(req)[1].amount = 0

Answered(h, code) == hs[h].pc = "done" /\ hs[h].resp.code = code
KeyOf(h) == toString(hs[h].req.nonce)

\* C1 as stated: every submission executeIntent handled sent exactly one
\* transaction, or none when there was nothing to execute and the zero hash
\* was returned.
C1_ExactlyOneTransaction ==
    \A h \in DOMAIN hs :
        hs[h].pc = "done" /\ hs[h].req.schemaOk =>
            \/ hs[h].sent = 1
            \/ /\ hs[h].sent = 0
               /\ NothingToDo(hs[h].req)
               /\ hs[h].resp.code = 201
               /\ hs[h].hash = ZeroHash

\* C1 amended: a submission never sends more than one transaction; one that
\* is answered 201 sent exactly one, whose hash it keeps, unless there was
\* nothing to execute, and then it sent none and keeps the zero hash; one that
\* sent none and is not answered 201 threw before dispatch and is answered
\* 400 or 500.
C1_AtMostOneTransaction ==
    \A h \in DOMAIN hs :
        /\ hs[h].sent <= 1
        /\ hs[h].pc = "stored" \/ Answered(h, 201) =>
              IF NothingToDo(hs[h].req)
              THEN hs[h].sent = 0 /\ hs[h].hash = ZeroHash
              ELSE /\ hs[h].sent = 1
                   /\ hs[h].hash # ZeroHash
                   /\ txs[hs[h].hash].by = h
                   /\ txs[hs[h].hash].status = "success"
        /\ hs[h].pc = "done" /\ hs[h].sent = 0 /\ hs[h].resp.code # 201 =>
              hs[h].resp.code \in {400, 500}

\* A submission of several calls answered 201 after its one transaction,
\* while the store also holds a record of a submission with nothing to
\* execute.
C1_Witness ==
    \E h \in DOMAIN hs :
        /\ Answered(h, 201)
        /\ hs[h].sent = 1
        /\ hs[h].tx.callData.fn = "mockFill"
        /\ Len(hs[h].tx.callData.mockFills) = 2
        /\ \E k \in DOMAIN intents : intents[k].fillTransactionHash = ZeroHash

SignatureRequired == "Destination signature required for destination operations"

\* A signature that is absent, 0x, or zeros only.
PlaceholderSig(sig) == ~sig.present \/ \A i \in 1..Len(sig.hex) : sig.hex[i] = 0

\* C2 as stated: a submission with a destination op of either shape and a
\* placeholder signature fails with the signature error, sends nothing and
\* stores nothing.
C2_AnyShapeNeedsSignature ==
    \A h \in DOMAIN hs :
        /\ hs[h].pc # "idle"
        /\ hs[h].req.schemaOk
        /\ destOpsOf(hs[h].req) # <<>>
        /\ PlaceholderSig(hs[h].req.destinationSignature)
        => /\ Answered(h, 500)
           /\ hs[h].resp.error = SignatureRequired
           /\ hs[h].sent = 0
           /\ ~hs[h].wrote

\* C2 amended: a submission whose destination ops are given in the tagged
\* {vt, ops} shape, each op with to, value and data, and whose signature is a
\* placeholder fails with the signature error (500), sends nothing and stores
\* nothing.
C2_TaggedNeedsSignature ==
    \A h \in DOMAIN hs :
        /\ hs[h].pc # "idle"
        /\ hs[h].req.schemaOk
        /\ taggedDestOpsOf(hs[h].req) # <<>>
        /\ \A i \in 1..Len(taggedDestOpsOf(hs[h].req)) :
              taggedDestOpsOf(hs[h].req)[i].wf = "full"
        /\ PlaceholderSig(hs[h].req.destinationSignature)
        => /\ Answered(h, 500)
           /\ hs[h].resp.error = SignatureRequired
           /\ hs[h].sent = 0
           /\ ~hs[h].wrote

\* A tagged destination op under an all-zero signature, refused.
C2_Witness ==
    \E h \in DOMAIN hs :
        /\ Answered(h, 500)
        /\ hs[h].resp.error = SignatureRequired
        /\ taggedDestOpsOf(hs[h].req) # <<>>
        /\ hs[h].req.destinationSignature = Sig(<<0, 0>>)
        /\ hs[h].sent = 0
        /\ ~hs[h].wrote

\* C3 as stated: after a submission that threw, the store holds no record
\* under its nonce and the lookup answers 404.
C3_NoRecordAfterThrow ==
    \A h \in DOMAIN hs :
        /\ hs[h].pc = "done"
        /\ hs[h].req.schemaOk
        /\ hs[h].resp.code \in {400, 500}
        => /\ ~getIntentById(intents, hs[h].req.nonce).found
           /\ StatusAnswer(intents, KeyOf(h)).code = 404

\* C3 amended: a submission that throws writes nothing: the step that
\* answers it 400 or 500 leaves the store as it was, no step of the
\* submission stored a record, and no record has status FAILED.
C3_ThrowLeavesStore ==
    [][\A h \in DOMAIN hs :
          /\ hs'[h] # hs[h]
          /\ hs'[h].pc = "done"
          /\ hs'[h].resp.code \in {400, 500}
          => /\ intents' = intents
             /\ ~hs'[h].wrote
             /\ \A k \in DOMAIN intents' : intents'[k].status # "FAILED"]_vars

\* A submission whose transaction reverted, answered 500, while the record
\* of an earlier submission of the same nonce is still in the store.
C3_Witness ==
    \E h \in DOMAIN hs :
        /\ Answered(h, 500)
        /\ hs[h].receipt = "reverted"
        /\ ~hs[h].wrote
        /\ getIntentById(intents, hs[h].req.nonce).found

\* C4 as stated: every submission answered 201 had its transaction mined
\* without reversion, then its record stored, then the answer sent; the
\* record under the id is COMPLETED with the hash the execution returned.
C4_MinedStoredAnswered ==
    \A h \in DOMAIN hs :
        Answered(h, 201) =>
            /\ hs[h].sent = 1
            /\ hs[h].hash \in 1..Len(txs)
            /\ txs[hs[h].hash].status = "success"
            /\ hs[h].resp.id = hs[h].req.nonce
            /\ hs[h].resp.status = "PENDING"
            /\ intents[KeyOf(h)].status = "COMPLETED"
            /\ intents[KeyOf(h)].fillTransactionHash = hs[h].hash

\* C4 amended: a record is stored only after the submission's transaction,
\* if it sent one, was mined without reversion, and before any answer; the
\* answer 201 {id, PENDING} is given only after the record is stored, and at
\* that moment the record under the id is COMPLETED with the hash the
\* execution returned: that of the mined transaction, or the zero hash when
\* nothing was sent.
C4_StoredBeforeAnswered ==
    [][\A h \in DOMAIN hs :
          /\ hs'[h].pc = "stored" /\ hs[h].pc # "stored" =>
                /\ hs'[h].resp = NoResponse
                /\ hs'[h].sent = 1 =>
                      /\ hs[h].pc = "receipt"
                      /\ hs'[h].hash \in 1..Len(txs)
                      /\ txs[hs'[h].hash].status = "success"
                      /\ txs[hs'[h].hash].by = h
                /\ hs'[h].sent = 0 => hs'[h].hash = ZeroHash
                /\ intents'[KeyOf(h)'].status = "COMPLETED"
                /\ intents'[KeyOf(h)'].fillTransactionHash = hs'[h].hash
          /\ hs'[h].resp.code = 201 /\ hs[h].resp.code # 201 =>
                /\ hs[h].pc = "stored"
                /\ hs'[h].resp = [code |-> 201, id |-> hs[h].req.nonce, status |-> "PENDING"]
                /\ intents' = intents
                /\ intents[KeyOf(h)].status = "COMPLETED"
                /\ intents[KeyOf(h)].fillTransactionHash = hs[h].hash]_vars

\* A submission answered 201 {id, PENDING} whose record is COMPLETED under
\* the hash of its mined transaction.
C4_Witness ==
    \E h \in DOMAIN hs :
        /\ Answered(h, 201)
        /\ hs[h].resp.status = "PENDING"
        /\ hs[h].hash # ZeroHash
        /\ txs[hs[h].hash].status = "success"
        /\ intents[KeyOf(h)].status = "COMPLETED"
        /\ intents[KeyOf(h)].fillTransactionHash = hs[h].hash

\* The handler's submission is the last quote, signed with placeholders.
FromRoute(h) ==
    /\ routed.code = 201
    /\ hs[h].pc # "idle"
    /\ hs[h].req = createSignedIntent(routed.intentOp)

\* The submission's one transaction is a router batch with a call
\* transfer(U, A) on token T, as the quote was asked for.
BatchHasTransfer(h) ==
    /\ hs[h].sent = 1
    /\ hs[h].tx.callData.fn = "mockFill"
    /\ \E i \in 1..Len(hs[h].tx.callData.mockFills) :
          hs[h].tx.callData.mockFills[i] =
              [target |-> routed.for.tokenRequests[1].tokenAddress,
               callData |-> transfer(routed.for.account.address,
                                     routed.for.tokenRequests[1].amount)]

\* What GET /intent-operation/:id answers for the handler's id and what it
\* must say of a completed quote.
CompletedAsAsked(h) ==
    LET a == StatusAnswer(intents, KeyOf(h))
    IN  /\ a.code = 200
        /\ a.body.status = "COMPLETED"
        /\ a.body.fillTransactionHash = hs[h].hash
        /\ a.body.fillTransactionHash \in 1..Len(txs)
        /\ a.body.destinationChainId = routed.for.destinationChainId
        /\ BatchHasTransfer(h)

\* C5 as stated: every quote for an amount of an ERC-20 token, submitted
\* with all-zero signatures, is answered 201, and its status is then
\* COMPLETED with a fill transaction hash and the requested destination
\* chain, the batch holding transfer(U, A) on the token.
C5_QuoteAlwaysCompletes ==
    \A h \in DOMAIN hs :
        FromRoute(h) /\ hs[h].pc = "done" => Answered(h, 201) /\ CompletedAsAsked(h)

\* C5 amended: such a submission is answered 201 exactly when the
\* destination chain is configured and its transaction is mined without
\* reversion, and then its status is COMPLETED with the hash of that
\* transaction and the requested destination chain, the batch holding
\* transfer(U, A) on the token; otherwise it is answered 500 and has stored
\* nothing.
C5_QuoteCompletesWhenMined ==
    \A h \in DOMAIN hs :
        FromRoute(h) /\ hs[h].pc = "done" =>
            /\ Answered(h, 201) <=>
                  /\ chainContexts(routed.for.destinationChainId)
                  /\ hs[h].receipt = "success"
            /\ Answered(h, 201) =>
                  /\ CompletedAsAsked(h)
                  /\ txs[hs[h].hash].status = "success"
                  /\ StatusAnswer(intents, KeyOf(h)).body.userAddress =
                         routed.for.account.address
            /\ ~Answered(h, 201) => Answered(h, 500) /\ ~hs[h].wrote

\* A quote from Base Sepolia to Sepolia, submitted and answered 201, whose
\* status has been asked for and is COMPLETED on Sepolia.
C5_Witness ==
    \E h \in DOMAIN hs :
        /\ FromRoute(h)
        /\ Answered(h, 201)
        /\ routed.for.destinationChainId = SEPOLIA_CHAIN_ID
        /\ routed.intentOp.elements[1].chainId = BASE_SEPOLIA_CHAIN_ID
        /\ statusResp = StatusAnswer(intents, KeyOf(h))
        /\ statusResp.code = 200
        /\ statusResp.body.status = "COMPLETED"
        /\ statusResp.body.destinationChainId = SEPOLIA_CHAIN_ID
        /\ BatchHasTransfer(h)

\* A path id that is not a non-empty string of decimal digits.
Malformed(path) == path = <<>> \/ \E i \in 1..Len(path) : path[i] \notin 0..9

\* C6: a step of GET /intent-operation/:id (the only step that leaves the
\* handlers, the chains, the clock and the count of submissions as they were)
\* answers 400 to a malformed id, 200 with exactly the record stored under
\* the integer value of the id when there is one, 404 when there is none,
\* and leaves the store as it was.
C6_StatusAnswers ==
    [][UNCHANGED <<hs, submitted, world, txs, now, routed, putLog, got, portfolioResp, applied>>
          /\ statusResp' # NoResponse =>
          LET path == statusResp'.path
              keys == {k \in DOMAIN intents : BigInt(k) = BigInt(path)}
          IN  /\ intents' = intents
              /\ IF Malformed(path) THEN statusResp'.code = 400
                 ELSE IF keys # {}
                      THEN /\ statusResp'.code = 200
                           /\ \A k \in keys : statusResp'.body = intents[k]
                 ELSE statusResp'.code = 404]_vars

\* The id 07 answered 200 with the record stored under 7, the id 3 having
\* no record.
C6_Witness ==
    /\ statusResp.code = 200
    /\ statusResp.path = <<0, 7>>
    /\ <<7>> \in DOMAIN intents
    /\ statusResp.body = intents[<<7>>]
    /\ StatusAnswer(intents, <<3>>).code = 404

\* The puts of the history made on an id, by position.
PutsOn(id) == {i \in 1..Len(putLog) : putLog[i].id = id}
LastPutOn(id) == CHOOSE i \in PutsOn(id) : \A j \in PutsOn(id) : j <= i

\* C7: after any sequence of puts and gets, get(id) gives the record of the
\* most recent put(id) and NotFound only if there was none, whatever was put
\* under other ids, and the store holds one record per id ever put.
C7_UpsertMap ==
    /\ \A id \in StoreIds :
          getIntentById(intents, id) =
              IF PutsOn(id) = {} THEN NotFound
              ELSE [found |-> TRUE, intent |-> putLog[LastPutOn(id)].intent]
    /\ Cardinality(DOMAIN intents) = Cardinality({putLog[i].id : i \in 1..Len(putLog)})

\* Two puts on one id and one on another in between; a get of the first id
\* has given the later record.
C7_Witness ==
    /\ Len(putLog) = 3
    /\ putLog[1].id = putLog[3].id
    /\ putLog[1].id # putLog[2].id
    /\ putLog[1].intent # putLog[3].intent
    /\ got = [id |-> putLog[3].id, result |-> [found |-> TRUE, intent |-> putLog[3].intent]]
    /\ getIntentById(intents, putLog[2].id).intent = putLog[2].intent

\* C8 as stated: a record is created PENDING when the intent is submitted
\* and, once COMPLETED or FAILED, is changed by no later step.
C8_PendingThenTerminal ==
    [][/\ \A k \in DOMAIN intents' \ DOMAIN intents : intents'[k].status = "PENDING"
       /\ \A k \in DOMAIN intents :
             intents[k].status \in {"COMPLETED", "FAILED"} =>
                 k \in DOMAIN intents' /\ intents'[k] = intents[k]]_vars

\* C8 amended: a record is created already COMPLETED, by the step that
\* follows the successful execution; no record is ever PENDING or FAILED and
\* none is deleted; a record changes only when a later submission of the same
\* nonce completes and replaces it with its own.
C8_CompletedOnly ==
    [][/\ DOMAIN intents \subseteq DOMAIN intents'
       /\ \A k \in DOMAIN intents' :
             /\ intents'[k].status = "COMPLETED"
             /\ k \notin DOMAIN intents \/ intents'[k] # intents[k] =>
                   \E h \in DOMAIN hs :
                       /\ hs'[h].pc = "stored" /\ hs[h].pc # "stored"
                       /\ toString(hs'[h].req.nonce) = k
                       /\ intents'[k].fillTransactionHash = hs'[h].hash
                       /\ hs'[h].sent = 1 => txs[hs'[h].hash].status = "success"]_vars

\* A resubmission has just replaced the COMPLETED record of its nonce.
C8_Witness ==
    \E h \in DOMAIN hs :
        /\ hs[h].pc = "stored"
        /\ hs[h].prior.found
        /\ hs[h].prior.intent.status = "COMPLETED"
        /\ intents[KeyOf(h)].status = "COMPLETED"
        /\ intents[KeyOf(h)] # hs[h].prior.intent

\* The token movements a router batch asks for, in order.
TransfersBy(sender, calls) ==
    MapSeq(SelectSeq(calls, LAMBDA c : c.callData.fn = "transfer" /\ c.target = USDC),
           LAMBDA c : [from |-> sender, to |-> c.callData.to, amount |-> c.callData.amount])

MovesOf(tx) ==
    Flatten(MapSeq(tx.callData.mockFills,
        LAMBDA c : IF c.callData.fn = "executeSinglechainOps"
                   THEN TransfersBy(c.callData.account,
                            MapSeq(c.callData.ops.ops,
                                   LAMBDA op : [target |-> op.to, callData |-> op.data]))
                   ELSE TransfersBy(ROUTER_ADDRESS, <<c>>)))

RECURSIVE Net(_, _)
Net(moves, a) ==
    IF moves = <<>> THEN 0
    ELSE (IF Head(moves).to = a THEN Head(moves).amount ELSE 0)
         - (IF Head(moves).from = a THEN Head(moves).amount ELSE 0)
         + Net(Tail(moves), a)

\* A sub-call of the batch that cannot succeed: a call that reverts, or an
\* intent-executor call under a signature that does not verify.
HasFailingCall(tx) ==
    \E i \in 1..Len(tx.callData.mockFills) :
        LET c == tx.callData.mockFills[i]
        IN  \/ c.callData.fn = "revert"
            \/ c.callData.fn = "executeSinglechainOps" /\ c.callData.signature # <<0, 1>>

\* C9: a router batch is applied whole or not at all.  When its transaction
\* is mined reverted the chain is as it was; when it is mined successfully
\* every token movement of the batch is applied; a batch with a failing
\* sub-call is mined reverted.  After a reverted transaction the submission
\* is answered 500 and the store is as it was.
C9_AtomicBatch ==
    [][\A h \in DOMAIN hs :
          /\ hs[h].pc = "sending" /\ hs'[h].pc = "receipt"
             /\ hs'[h].tx.callData.fn = "mockFill" =>
                LET c == destinationChainOf(hs[h].req)
                IN  /\ HasFailingCall(hs'[h].tx) => hs'[h].receipt = "reverted"
                    /\ hs'[h].receipt = "reverted" => world' = world
                    /\ hs'[h].receipt = "success" =>
                          \A a \in Holders :
                              /\ world'[c].usdc[a] =
                                     world[c].usdc[a] + Net(MovesOf(hs'[h].tx), a)
                              /\ world'[c].usdc[a] >= 0
          /\ hs[h].pc = "receipt" /\ hs[h].receipt = "reverted" /\ hs'[h] # hs[h] =>
                /\ hs'[h].pc = "done"
                /\ hs'[h].resp.code = 500
                /\ ~hs'[h].wrote
                /\ intents' = intents]_vars

\* A batch of a token transfer and an intent-executor call whose signature
\* is rejected: answered 500, the chains as they began, nothing stored.
C9_Witness ==
    \E h \in DOMAIN hs :
        /\ Answered(h, 500)
        /\ hs[h].receipt = "reverted"
        /\ hs[h].tx.callData.fn = "mockFill"
        /\ Len(hs[h].tx.callData.mockFills) = 2
        /\ hs[h].tx.callData.mockFills[1].callData.fn = "transfer"
        /\ hs[h].tx.callData.mockFills[2].callData.fn = "executeSinglechainOps"
        /\ hs[h].tx.callData.mockFills[2].callData.signature = <<10, 11>>
        /\ world = InitWorld
        /\ intents = <<>>

\* C10: a resubmission of a signed intent whose record is in the store sends
\* no transaction and leaves the record as it was.
C10_Idempotent ==
    \A h \in DOMAIN hs :
        hs[h].prior.found =>
            /\ hs[h].sent = 0
            /\ intents[KeyOf(h)] = hs[h].prior.intent

\* The chain an access list names first: the first chainIds entry, or the
\* first entry's chainId when the list is an array of entries.
FirstListed(accountAccessList) ==
    IF accountAccessList.shape = "array" THEN accountAccessList.entries[1].chainId
    ELSE accountAccessList.chainIds[1]

SettlementLayerOf(intentOp) ==
    intentOp.elements[1].mandate.qualifier.settlementContext.settlementLayer

\* C11: a quote returned for a route request that carries an access list has
\* the first listed chain as its element's source chain, and its settlement
\* layer is SAME_CHAIN exactly when that chain is the requested destination
\* chain and ACROSS otherwise.
C11_SourceAndSettlement ==
    (routed.code = 201 /\ routed.for.accountAccessList.shape # "absent") =>
        LET source == routed.intentOp.elements[1].chainId
            layer == SettlementLayerOf(routed.intentOp)
        IN  /\ source = FirstListed(routed.for.accountAccessList)
            /\ layer \in {"SAME_CHAIN", "ACROSS"}
            /\ layer = "SAME_CHAIN" <=> source = routed.for.destinationChainId

\* A quote for Sepolia from an access list of Sepolia then Base Sepolia:
\* sourced on Sepolia, settled on the same chain.
C11_Witness ==
    /\ routed.code = 201
    /\ routed.for.accountAccessList.shape = "object"
    /\ routed.for.accountAccessList.chainIds = <<SEPOLIA_CHAIN_ID, BASE_SEPOLIA_CHAIN_ID>>
    /\ routed.for.destinationChainId = SEPOLIA_CHAIN_ID
    /\ routed.intentOp.elements[1].chainId = SEPOLIA_CHAIN_ID
    /\ SettlementLayerOf(routed.intentOp) = "SAME_CHAIN"

\* The first key of the configured chains: integer keys are listed in
\* ascending order.
FirstConfigured == CHOOSE c \in ConfiguredChains : \A d \in ConfiguredChains : c <= d

\* C12: a route request that leaves the access list out is answered with a
\* quote whose source chain is the first configured chain.
C12_DefaultSourceChain ==
    (routed # NoResponse /\ routed.for.accountAccessList.shape = "absent") =>
        /\ routed.code = 201
        /\ routed.intentOp.elements[1].chainId = FirstConfigured

\* C13: a submission whose first element names a destination chain that
\* is not configured is answered 500 and stores no record, whatever its
\* shape, one with nothing to execute included.
C13_UnknownChainFails ==
    \A h \in DOMAIN hs :
        (/\ hs[h].pc = "done"
         /\ hs[h].req.schemaOk
         /\ destinationChainOf(hs[h].req) \notin ConfiguredChains) =>
            /\ hs[h].resp.code = 500
            /\ ~hs[h].wrote

\* A token-out tuple the tuple schema rejects.
BadTokenOut(req) == \E i \in 1..Len(tokenOutOf(req)) : tokenOutOf(req)[i].kind # "pair"

\* A tagged destination op the {to, value, data} schema rejects.
BadTaggedOp(req) == \E i \in 1..Len(taggedDestOpsOf(req)) : taggedDestOpsOf(req)[i].wf # "full"

\* C14 as stated: a request the schema rejects is answered 400, and every
\* failure of a request the schema accepts is answered 500.
C14_LaterFailuresAre500 ==
    \A h \in DOMAIN hs :
        hs[h].pc = "done" =>
            /\ ~hs[h].req.schemaOk => hs[h].resp.code = 400
            /\ (hs[h].req.schemaOk /\ hs[h].resp.code # 201) => hs[h].resp.code = 500

\* C14: a request the schema rejects is answered 400.  A request the
\* schema accepts is answered 400 as well when a decoder inside
\* executeIntent rejects it (a tagged destination op, or a token-out tuple
\* of a request without tagged destination ops), and only then; every other
\* failure is answered 500.
C14_ZodFailuresAre400 ==
    \A h \in DOMAIN hs :
        hs[h].pc = "done" =>
            /\ hs[h].resp.code \in {201, 400, 500}
            /\ ~hs[h].req.schemaOk => hs[h].resp.code = 400
            /\ (hs[h].req.schemaOk /\ hs[h].resp.code = 400) =>
                   BadTokenOut(hs[h].req) \/ BadTaggedOp(hs[h].req)
            /\ (hs[h].req.schemaOk /\ BadTaggedOp(hs[h].req)) => hs[h].resp.code = 400
            /\ (/\ hs[h].req.schemaOk
                /\ taggedDestOpsOf(hs[h].req) = <<>>
                /\ tokenOutOf(hs[h].req) # <<>>
                /\ tokenOutOf(hs[h].req)[1].kind # "pair") => hs[h].resp.code = 400

\* A submission the schema accepts whose token-out tuple is not a pair of
\* integers, answered 400 with nothing sent or stored.
C14_Witness ==
    \E h \in DOMAIN hs :
        /\ hs[h].pc = "done"
        /\ hs[h].req.schemaOk
        /\ BadTokenOut(hs[h].req)
        /\ hs[h].resp.code = 400
        /\ hs[h].sent = 0
        /\ ~hs[h].wrote

\* A handled submission whose destination ops are a non-empty flat array
\* and whose destination signature is a placeholder.
LegacyArrayCase(h) ==
    /\ hs[h].pc = "done"
    /\ hs[h].req.schemaOk
    /\ hs[h].req.elements # <<>>
    /\ \A i \in 1..Len(hs[h].req.elements) :
           hs[h].req.elements[i].mandate.destinationOps.shape \in {"none", "array"}
    /\ destOpsOf(hs[h].req) # <<>>
    /\ PlaceholderSig(hs[h].req.destinationSignature)

\* The status query for the handler's intent answers COMPLETED with the
\* hash of the handler's mined transaction.
CompletedWithHash(h) ==
    LET a == StatusAnswer(intents, KeyOf(h))
    IN  /\ a.code = 200
        /\ a.body.status = "COMPLETED"
        /\ a.body.fillTransactionHash = hs[h].hash
        /\ a.body.fillTransactionHash \in 1..Len(txs)

\* The handler's transaction is a router batch with a transfer to the
\* recipient for every token-out that is not native and, at its end, every
\* listed destination op in order.
BatchTransfersAndOps(h) ==
    LET req == hs[h].req
        ops == destOpsOf(req)
        outs == tokenOutOf(req)
    IN  /\ hs[h].tx.to = ROUTER_ADDRESS
        /\ hs[h].tx.callData.fn = "mockFill"
        /\ LET fills == hs[h].tx.callData.mockFills
           IN  /\ Len(fills) >= Len(ops)
               /\ \A i \in 1..Len(ops) :
                      fills[Len(fills) - Len(ops) + i] =
                          [target |-> ops[i].to, callData |-> ops[i].data]
               /\ \A j \in 1..Len(outs) :
                      ~IsNative(outs[j]) =>
                          \E i \in 1..(Len(fills) - Len(ops)) :
                              fills[i] = [target |-> outs[j].id.lo,
                                          callData |-> transfer(recipientOf(req),
                                                                outs[j].amount)]

\* C15 as stated: a submission with a non-empty flat array of destination
\* ops and placeholder signatures is executed successfully in a single
\* transaction and its status query returns COMPLETED.
C15_LegacyArrayAlwaysCompletes ==
    \A h \in DOMAIN hs :
        LegacyArrayCase(h) =>
            /\ hs[h].resp.code = 201
            /\ hs[h].sent = 1
            /\ CompletedWithHash(h)

\* C15: a decodable submission for a configured chain with a non-empty
\* flat array of destination ops and placeholder signatures sends exactly
\* one transaction, a router batch with the token transfers to the
\* recipient and every listed destination op; when that transaction is
\* mined successfully the submission is answered 201 and the status query
\* returns COMPLETED with its hash, and when it reverts the submission is
\* answered 500.
C15_LegacyArrayCompletesWhenMined ==
    \A h \in DOMAIN hs :
        LegacyArrayCase(h) =>
            /\ hs[h].sent <= 1
            /\ (/\ destinationChainOf(hs[h].req) \in ConfiguredChains
                /\ toTokenTransfers(hs[h].req.elements).res = "ok") => hs[h].sent = 1
            /\ hs[h].sent = 1 => BatchTransfersAndOps(h)
            /\ (hs[h].sent = 1 /\ hs[h].receipt = "success") =>
                   hs[h].resp.code = 201 /\ CompletedWithHash(h)
            /\ (hs[h].sent = 0 \/ hs[h].receipt = "reverted") =>
                   hs[h].resp.code \in {400, 500}

\* A flat array of one destination op next to one token-out, mined in one
\* router batch of two calls and answered 201.
C15_Witness ==
    \E h \in DOMAIN hs :
        /\ LegacyArrayCase(h)
        /\ hs[h].resp.code = 201
        /\ hs[h].sent = 1
        /\ hs[h].receipt = "success"
        /\ Len(hs[h].tx.callData.mockFills) = 2
        /\ BatchTransfersAndOps(h)
        /\ CompletedWithHash(h)

\* ------------------------------------------------------------ portfolio

RECURSIVE Pow2(_)
Pow2(k) == IF k = 0 THEN 1 ELSE 2 * Pow2(k - 1)

\* The exponent of the leading bit of n >= 1.
RECURSIVE Log2(_)
Log2(n) == IF n < 2 THEN 0 ELSE 1 + Log2(n \div 2)

\* Number(bigint): the nearest number of SignificandBits bits, ties to the
\* even significand.  Integers below 2^SignificandBits are kept as they are.
Number(n) ==
    IF n < Pow2(SignificandBits) THEN n
    ELSE LET ulp == Pow2(Log2(n) - SignificandBits + 1)
             q == n \div ulp
             r == n % ulp
         IN  IF 2 * r < ulp THEN q * ulp
             ELSE IF 2 * r > ulp THEN (q + 1) * ulp
             ELSE IF q % 2 = 0 THEN q * ulp
             ELSE (q + 1) * ulp

\* a += b on numbers: the exact sum, rounded.
PlusEq(a, b) == Number(a + b)

\* The token symbols of a chain's configuration and their addresses.
tokenSymbols(chain) == <<"ETH", "USDC">>
getTokenAddress(symbol) == IF symbol = "ETH" THEN zeroAddress ELSE USDC

\* ChainContext.balanceOf: the ERC-20 balances, then the native ones.
balanceOf(w, chain, address, symbols) ==
    LET tokens == MapSeq(symbols, LAMBDA sym : [symbol |-> sym, token |-> getTokenAddress(sym),
                                                chainId |-> chain])
        erc20Tokens == SelectSeq(tokens, LAMBDA t : t.symbol # "ETH")
        natives == SelectSeq(tokens, LAMBDA t : t.symbol = "ETH")
    IN  MapSeq(erc20Tokens, LAMBDA t : [symbol |-> t.symbol, token |-> t.token,
                                        chainId |-> t.chainId, amount |-> w[chain].usdc[address]])
        \o MapSeq(natives, LAMBDA t : [symbol |-> t.symbol, token |-> t.token,
                                       chainId |-> t.chainId, amount |-> w[chain].eth[address]])

\* Object.values(chainContexts()): integer keys in ascending order.
RECURSIVE SortedChains(_)
SortedChains(S) ==
    IF S = {} THEN <<>>
    ELSE LET c == CHOOSE x \in S : \A y \in S : x <= y
         IN  <<c>> \o SortedChains(S \ {c})

\* The inner reduce step of getPortfolio: one balance added to the map.  The
\* map is a sequence of entries in insertion order; chainBalance is a
\* sequence of per chain and token amounts.
AddBalance(map, balance) ==
    LET at == FirstIndex(map, LAMBDA m : m.symbol = balance.symbol)
        withEntry == IF at = 0
                     THEN Append(map, [symbol |-> balance.symbol, amount |-> 0,
                                       chainBalance |-> <<>>])
                     ELSE map
        i == IF at = 0 THEN Len(withEntry) ELSE at
        cb == withEntry[i].chainBalance
        j == FirstIndex(cb, LAMBDA b : b.chainId = balance.chainId /\ b.token = balance.token)
        withToken == IF j = 0
                     THEN Append(cb, [chainId |-> balance.chainId, token |-> balance.token,
                                      amount |-> 0])
                     ELSE cb
        k == IF j = 0 THEN Len(withToken) ELSE j
    IN  [withEntry EXCEPT ![i] =
            [@ EXCEPT !.amount = PlusEq(@, Number(balance.amount)),
                      !.chainBalance =
                          [withToken EXCEPT ![k] =
                              [@ EXCEPT !.amount = PlusEq(@, Number(balance.amount))]]]]

RECURSIVE ReduceBalances(_, _)
ReduceBalances(map, balances) ==
    IF balances = <<>> THEN map
    ELSE ReduceBalances(AddBalance(map, Head(balances)), Tail(balances))

\* getPortfolio: the balances of every configured chain, folded by symbol.
getPortfolio(w, userAddress) ==
    LET chains == SortedChains(ConfiguredChains)
        balancesOfBalances ==
            Flatten(MapSeq(chains, LAMBDA c : balanceOf(w, c, userAddress, tokenSymbols(c))))
        balanceMap == ReduceBalances(<<>>, balancesOfBalances)
    IN  MapSeq(balanceMap, LAMBDA entry :
            [tokenName |-> entry.symbol,
             balance |-> [locked |-> 0, unlocked |-> entry.amount],
             tokenChainBalance |->
                 MapSeq(entry.chainBalance, LAMBDA b :
                     [chainId |-> b.chainId, tokenAddress |-> b.token,
                      balance |-> [locked |-> 0, unlocked |-> b.amount]])])

\* GET /accounts/:userAddress/portfolio
portfolio(userAddress) ==
    /\ portfolioResp' = [code |-> 200, for |-> userAddress,
                         portfolio |-> getPortfolio(world, userAddress)]
    /\ UNCHANGED <<intents, world, txs, hs, now, submitted, statusResp, routed, putLog, got, applied>>

\* The balances the accounts are funded with: none, one unit, and the
\* first integer that is not a number of SignificandBits bits.
FundedBalances == {0, 1, Pow2(SignificandBits) + 1}

\* The chains after setupAccount has funded the user.
InitPortfolio ==
    /\ intents = <<>>
    /\ world \in {[c \in ConfiguredChains |->
                     [InitWorld[c] EXCEPT !.usdc[USER_ADDRESS] = f[c].usdc,
                                          !.eth[USER_ADDRESS] = f[c].eth]] :
                  f \in [ConfiguredChains -> [usdc : FundedBalances, eth : FundedBalances]]}
    /\ txs = <<>>
    /\ hs = [h \in Handlers |-> IdleHandler]
    /\ now = 0
    /\ submitted = 0
    /\ statusResp = NoResponse
    /\ routed = NoResponse
    /\ putLog = <<>>
    /\ got = [id |-> 0, result |-> NotFound]
    /\ portfolioResp = NoResponse
    /\ applied = NotApplied

NextPortfolio == \E userAddress \in Holders : portfolio(userAddress)

SpecPortfolio == InitPortfolio /\ [][NextPortfolio]_vars

RECURSIVE SumSeq(_)
SumSeq(s) == IF s = <<>> THEN 0 ELSE Head(s) + SumSeq(Tail(s))

\* The balance of a symbol's token an address holds on a chain.
ChainBalanceOf(w, chain, symbol, address) ==
    IF symbol = "ETH" THEN w[chain].eth[address] ELSE w[chain].usdc[address]

SupportedSymbols == UNION {{tokenSymbols(c)[i] : i \in 1..Len(tokenSymbols(c))} : c \in ConfiguredChains}

\* C16: the portfolio answered for a user has one entry per supported
\* token symbol; the entry's unlocked balance is the sum of the symbol's
\* balances over the configured chains and the sum of the unlocked amounts
\* of its tokenChainBalance, and every locked balance is 0.
C16_PortfolioSums ==
    portfolioResp # NoResponse =>
        LET entries == portfolioResp.portfolio
        IN  /\ {entries[i].tokenName : i \in 1..Len(entries)} = SupportedSymbols
            /\ Len(entries) = Cardinality(SupportedSymbols)
            /\ \A i \in 1..Len(entries) :
                   /\ entries[i].balance.locked = 0
                   /\ entries[i].balance.unlocked =
                          SumSeq(MapSeq(SortedChains(ConfiguredChains), LAMBDA c :
                              ChainBalanceOf(world, c, entries[i].tokenName, portfolioResp.for)))
                   /\ entries[i].balance.unlocked =
                          SumSeq(MapSeq(entries[i].tokenChainBalance,
                                        LAMBDA b : b.balance.unlocked))
                   /\ \A j \in 1..Len(entries[i].tokenChainBalance) :
                          entries[i].tokenChainBalance[j].balance.locked = 0

\* The handler has sent a router batch.
SentBatch(h) == hs[h].sent >= 1 /\ hs[h].tx.callData.fn = "mockFill"

\* The setup ops of the request as calls, in their given order.
SetupPart(req) == MapSeq(req.setupOps, LAMBDA op : [target |-> op.to, callData |-> op.data])

\* One transfer to the recipient per token-out that is not native, in
\* element order and then entry order.
TransferPart(req) ==
    MapSeq(SelectSeq(tokenOutOf(req), LAMBDA t : ~IsNative(t)),
           LAMBDA t : [target |-> t.id.lo, callData |-> transfer(recipientOf(req), t.amount)])

\* The flat destination ops of the request as calls, in their given order.
LegacyPart(req) == MapSeq(destOpsOf(req), LAMBDA op : [target |-> op.to, callData |-> op.data])

\* C17: the calls of every compiled batch are the setup ops in their given
\* order, then one transfer per token-out that is not native in element
\* order and then entry order, then the destination contribution: the one
\* intent-executor call when there are tagged destination ops, the flat
\* destination ops in their given order otherwise.  No call is reordered,
\* duplicated or dropped.
C17_BatchOrder ==
    \A h \in DOMAIN hs :
        SentBatch(h) =>
            LET req == hs[h].req
                fills == hs[h].tx.callData.mockFills
                head == SetupPart(req) \o TransferPart(req)
            IN  IF taggedDestOpsOf(req) # <<>>
                THEN /\ Len(fills) = Len(head) + 1
                     /\ SubSeq(fills, 1, Len(head)) = head
                     /\ fills[Len(fills)].target = INTENT_EXECUTOR_ADDRESS
                     /\ fills[Len(fills)].callData.fn = "executeSinglechainOps"
                ELSE fills = head \o LegacyPart(req)

\* A batch of four calls: the setup op, the transfers of one and of two
\* USDC from the two elements, and the flat destination op.
C17_Witness ==
    \E h \in DOMAIN hs :
        /\ SentBatch(h)
        /\ Len(hs[h].req.elements) = 2
        /\ Len(hs[h].tx.callData.mockFills) = 4
        /\ hs[h].tx.callData.mockFills[2].callData = transfer(USER_ADDRESS, 1)
        /\ hs[h].tx.callData.mockFills[3].callData = transfer(USER_ADDRESS, 2)
        /\ hs[h].tx.callData.mockFills[4] =
               [target |-> USDC, callData |-> transfer(RECIPIENT_ADDRESS, 1)]

\* A submission whose tagged destination ops encode to a payload that is
\* not empty and whose destination signature passes the placeholder check.
ExecutorCase(req) ==
    /\ req.schemaOk
    /\ req.elements # <<>>
    /\ taggedDestOpsOf(req) # <<>>
    /\ ~BadTaggedOp(req)
    /\ req.destinationSignature.present
    /\ ~PlaceholderSig(req.destinationSignature)

\* The tag bytes of the payload: those of the first element with tagged
\* destination ops, or ERC7579 (2) and ERC1271 (1) when it has no tag.
TagOf(req) ==
    LET first == FirstIndex(req.elements, LAMBDA e : taggedOps(e.mandate.destinationOps) # <<>>)
        vt == req.elements[first].mandate.destinationOps.vt
    IN  IF vt.present THEN <<vt.execType, vt.sigMode>> ELSE <<2, 1>>

\* The call is the intent-executor call of the request: addressed to the
\* intent executor, with the sponsor, the nonce, the packed payload and the
\* destination signature.
IsExecutorCallOf(call, req) ==
    /\ call.target = INTENT_EXECUTOR_ADDRESS
    /\ call.callData.fn = "executeSinglechainOps"
    /\ call.callData.account = req.sponsor
    /\ call.callData.nonce = req.nonce
    /\ call.callData.signature = req.destinationSignature.hex
    /\ <<call.callData.ops.execType, call.callData.ops.sigMode>> = TagOf(req)
    /\ call.callData.ops.ops =
           MapSeq(taggedDestOpsOf(req), LAMBDA op : [to |-> op.to, value |-> op.value,
                                                     data |-> op.data])

\* The USDC the calls of a list transfer, summed.
RECURSIVE TransferredBy(_)
TransferredBy(calls) ==
    IF calls = <<>> THEN 0
    ELSE (IF Head(calls).callData.fn = "transfer" /\ Head(calls).target = USDC
          THEN Head(calls).callData.amount ELSE 0) + TransferredBy(Tail(calls))

\* C18: a submission whose encoded destination-ops payload is not empty and
\* whose signature is accepted dispatches its full call list as exactly one
\* transaction, a router batch addressed to the router that ends with
\* exactly one intent-executor call carrying the sponsor, the nonce, the
\* packed payload and the destination signature.  The router is the sender
\* of every call of the list: the transfers of a mined batch are paid from
\* the router's balance.  A submission that is handled without a throw
\* before dispatch has sent that one transaction.
C18_ExecutorDispatch ==
    [][\A h \in DOMAIN hs :
          /\ (hs[h].pc = "sending" /\ hs'[h].pc = "receipt" /\ ExecutorCase(hs[h].req)) =>
                LET req == hs[h].req
                    tx == hs'[h].tx
                    c == destinationChainOf(req)
                IN  /\ hs'[h].sent = 1
                    /\ hs'[h].todo = <<>>
                    /\ tx.to = ROUTER_ADDRESS
                    /\ tx.callData.fn = "mockFill"
                    /\ LET fills == tx.callData.mockFills
                       IN  /\ fills # <<>>
                           /\ IsExecutorCallOf(fills[Len(fills)], req)
                           /\ \A i \in 1..(Len(fills) - 1) :
                                  fills[i].target # INTENT_EXECUTOR_ADDRESS
                           /\ hs'[h].receipt = "success" =>
                                  world'[c].usdc[ROUTER_ADDRESS] =
                                      world[c].usdc[ROUTER_ADDRESS] - TransferredBy(fills)
          /\ (/\ hs'[h].pc = "done"
              /\ ExecutorCase(hs'[h].req)
              /\ destinationChainOf(hs'[h].req) \in ConfiguredChains
              /\ toTokenTransfers(hs'[h].req.elements).res = "ok") => hs'[h].sent = 1
          /\ (hs'[h].pc = "done" /\ ExecutorCase(hs'[h].req)) => hs'[h].sent <= 1]_vars

\* A mined router batch of a transfer and the intent-executor call of the
\* request, answered 201.
C18_Witness ==
    \E h \in DOMAIN hs :
        /\ Answered(h, 201)
        /\ ExecutorCase(hs[h].req)
        /\ hs[h].sent = 1
        /\ hs[h].receipt = "success"
        /\ hs[h].tx.to = ROUTER_ADDRESS
        /\ Len(hs[h].tx.callData.mockFills) = 2
        /\ hs[h].tx.callData.mockFills[1].callData.fn = "transfer"
        /\ IsExecutorCallOf(hs[h].tx.callData.mockFills[2], hs[h].req)

\* A submission compiled by the legacy flow: the encoded destination-ops
\* payload is empty.
LegacyFlowCase(req) ==
    /\ req.schemaOk
    /\ req.elements # <<>>
    /\ taggedDestOpsOf(req) = <<>>

\* The call list of the legacy flow.
CallList(req) == SetupPart(req) \o TransferPart(req) \o LegacyPart(req)

\* C19 as stated: a legacy-flow call list of exactly one call is dispatched
\* directly: the transaction's target and call data are the call's own.
C19_SingleCallDirect ==
    \A h \in DOMAIN hs :
        (hs[h].sent >= 1 /\ LegacyFlowCase(hs[h].req) /\ Len(CallList(hs[h].req)) = 1) =>
            /\ hs[h].tx.to = CallList(hs[h].req)[1].target
            /\ hs[h].tx.callData = CallList(hs[h].req)[1].callData

\* C19: a legacy-flow call list of exactly one call is dispatched as one
\* router batch: the transaction is addressed to the router and its call
\* data is mockFill of the list of that one call; the call itself is made
\* by the router.
C19_SingleCallViaRouter ==
    \A h \in DOMAIN hs :
        (hs[h].sent >= 1 /\ LegacyFlowCase(hs[h].req) /\ Len(CallList(hs[h].req)) = 1) =>
            /\ hs[h].sent = 1
            /\ hs[h].tx.to = ROUTER_ADDRESS
            /\ hs[h].tx.callData.fn = "mockFill"
            /\ hs[h].tx.callData.mockFills = CallList(hs[h].req)

\* The plain submission of one USDC: one transfer call, mined inside a
\* router batch and answered 201.
C19_Witness ==
    \E h \in DOMAIN hs :
        /\ Answered(h, 201)
        /\ LegacyFlowCase(hs[h].req)
        /\ CallList(hs[h].req) = <<[target |-> USDC, callData |-> transfer(USER_ADDRESS, 1)]>>
        /\ hs[h].sent = 1
        /\ hs[h].receipt = "success"
        /\ hs[h].tx.to = ROUTER_ADDRESS

\* C20 as stated: a legacy-flow call list of two or more calls is wrapped
\* in a single multicall: aggregate3 with no call allowed to fail,
\* addressed to the chain's multicall contract, reverted when a sub-call
\* reverts.
C20_ManyCallsMulticall ==
    \A h \in DOMAIN hs :
        (hs[h].sent >= 1 /\ LegacyFlowCase(hs[h].req) /\ Len(CallList(hs[h].req)) >= 2) =>
            /\ hs[h].sent = 1
            /\ hs[h].tx.to = MULTICALL3_ADDRESS
            /\ hs[h].tx.callData.fn = "aggregate3"
            /\ HasFailingCall(hs[h].tx) => hs[h].receipt = "reverted"

\* C20: a legacy-flow call list of two or more calls is wrapped in a single
\* router batch: mockFill of the whole list in order, addressed to the
\* router, reverted entirely when a sub-call reverts.
C20_ManyCallsViaRouter ==
    \A h \in DOMAIN hs :
        (hs[h].sent >= 1 /\ LegacyFlowCase(hs[h].req) /\ Len(CallList(hs[h].req)) >= 2) =>
            /\ hs[h].sent = 1
            /\ hs[h].tx.to = ROUTER_ADDRESS
            /\ hs[h].tx.callData.fn = "mockFill"
            /\ hs[h].tx.callData.mockFills = CallList(hs[h].req)
            /\ HasFailingCall(hs[h].tx) => hs[h].receipt = "reverted"
            /\ hs[h].receipt = "reverted" => (hs[h].pc = "done" => hs[h].resp.code = 500)

\* A setup op that reverts next to a transfer: the batch of two calls is
\* mined reverted and the submission answered 500.
C20_Witness ==
    \E h \in DOMAIN hs :
        /\ Answered(h, 500)
        /\ LegacyFlowCase(hs[h].req)
        /\ Len(CallList(hs[h].req)) = 2
        /\ hs[h].sent = 1
        /\ hs[h].tx.callData.fn = "mockFill"
        /\ HasFailingCall(hs[h].tx)
        /\ hs[h].receipt = "reverted"

\* The token-outs of the request decode and its destination chain is
\* configured.
Compiles(req) ==
    /\ toTokenTransfers(req.elements).res = "ok"
    /\ destinationChainOf(req) \in ConfiguredChains

\* The amount of the first native token-out of the request, over the
\* elements in order; 0 when there is none.
FirstNativeAmount(req) ==
    LET natives == SelectSeq(tokenOutOf(req), IsNative)
    IN  IF natives = <<>> THEN 0 ELSE natives[1].amount

\* C21: in the legacy flow, a submission for a configured chain whose call
\* list is empty and whose native amount v is greater than 0 sends exactly
\* one transaction, to the recipient, with empty call data and value v,
\* without the router.
C21_NativeOnlyDirect ==
    \A h \in DOMAIN hs :
        (/\ hs[h].pc = "done"
         /\ LegacyFlowCase(hs[h].req)
         /\ Compiles(hs[h].req)
         /\ CallList(hs[h].req) = <<>>
         /\ FirstNativeAmount(hs[h].req) > 0) =>
            /\ hs[h].sent = 1
            /\ hs[h].tx.to = recipientOf(hs[h].req)
            /\ hs[h].tx.to # ROUTER_ADDRESS
            /\ hs[h].tx.callData = [fn |-> "empty"]
            /\ hs[h].tx.value = FirstNativeAmount(hs[h].req)

\* One unit of native currency and nothing else for the user: sent in a
\* plain value transfer, mined, answered 201, and the user holds it.
C21_Witness ==
    \E h \in DOMAIN hs :
        /\ Answered(h, 201)
        /\ LegacyFlowCase(hs[h].req)
        /\ CallList(hs[h].req) = <<>>
        /\ FirstNativeAmount(hs[h].req) = 1
        /\ hs[h].sent = 1
        /\ hs[h].tx = [to |-> USER_ADDRESS, callData |-> [fn |-> "empty"], value |-> 1]
        /\ world[destinationChainOf(hs[h].req)].eth[USER_ADDRESS] >= 1

\* The token-outs of the request that are not native, over the elements in
\* order.
NonNativeOuts(req) == SelectSeq(tokenOutOf(req), LAMBDA t : ~IsNative(t))

\* C22 as stated: the call built for a token-out that is not native
\* encodes transferFrom(relayer, recipient, amount) on the token.
C22_TransferFromRelayer ==
    \A h \in DOMAIN hs :
        SentBatch(h) =>
            LET req == hs[h].req
                fills == hs[h].tx.callData.mockFills
                n == Len(SetupPart(req))
            IN  \A j \in 1..Len(NonNativeOuts(req)) :
                    fills[n + j] = [target |-> NonNativeOuts(req)[j].id.lo,
                                    callData |-> transferFrom(recipientOf(req),
                                                              NonNativeOuts(req)[j].amount)]

\* C22: for every token-out that is not native the compiled batch has
\* exactly one call, on that token, encoding transfer(recipient, amount);
\* native token-outs add no call.  The calls are made by the router: when
\* the batch is mined the transferred amounts leave the router's balance.
C22_TransferFromRouter ==
    [][\A h \in DOMAIN hs :
          (/\ hs[h].pc = "sending"
           /\ hs'[h].pc = "receipt"
           /\ hs'[h].tx.callData.fn = "mockFill") =>
              LET req == hs[h].req
                  fills == hs'[h].tx.callData.mockFills
                  n == Len(SetupPart(req))
                  outs == NonNativeOuts(req)
                  c == destinationChainOf(req)
              IN  /\ Len(fills) = n + Len(outs)
                                    + (IF taggedDestOpsOf(req) # <<>> THEN 1
                                       ELSE Len(destOpsOf(req)))
                  /\ \A j \in 1..Len(outs) :
                         fills[n + j] =
                             [target |-> outs[j].id.lo,
                              callData |-> [fn |-> "transfer", to |-> recipientOf(req),
                                            amount |-> outs[j].amount]]
                  /\ hs'[h].receipt = "success" =>
                         world'[c].usdc[ROUTER_ADDRESS] =
                             world[c].usdc[ROUTER_ADDRESS] - TransferredBy(fills)]_vars

\* A mined batch for a token-out of one USDC: one call, transfer(user, 1)
\* on USDC, and the router has paid it.
C22_Witness ==
    \E h \in DOMAIN hs :
        /\ SentBatch(h)
        /\ hs[h].receipt = "success"
        /\ Len(NonNativeOuts(hs[h].req)) = 1
        /\ hs[h].tx.callData.mockFills =
               <<[target |-> USDC,
                  callData |-> [fn |-> "transfer", to |-> USER_ADDRESS, amount |-> 1]]>>
        /\ world[destinationChainOf(hs[h].req)].usdc[ROUTER_ADDRESS] < RouterFunds

\* C23: the native value of a transaction is the amount of the first
\* token-out, over all elements in order, whose decoded address is the
\* zero address, and 0 when there is none; the amounts of later native
\* token-outs are not added.
C23_FirstNativeValue ==
    \A h \in DOMAIN hs :
        hs[h].sent >= 1 => hs[h].tx.value = FirstNativeAmount(hs[h].req)

\* Two elements with native token-outs of one and of two units: the
\* transaction carries the value one.
C23_Witness ==
    \E h \in DOMAIN hs :
        /\ hs[h].sent >= 1
        /\ Len(SelectSeq(tokenOutOf(hs[h].req), IsNative)) = 2
        /\ SelectSeq(tokenOutOf(hs[h].req), IsNative)[2].amount = 2
        /\ hs[h].tx.value = 1

\* ------------------------------------------- the decoders by themselves

MaxElements == 2
MaxSigDigits == 3

\* The forms of destinationOps an element is submitted with.
DestinationOpsForms ==
    {NoDestinationOps,
     LegacyOps(<<OpNoValue(USDC, [fn |-> "noop"])>>),
     TaggedOps(NoVt, <<>>),
     TaggedOps(Vt(3, 4), <<>>),
     TaggedOps(NoVt, <<Op(USDC, [fn |-> "noop"])>>),
     TaggedOps(Vt(3, 4), <<Op(USER_ADDRESS, [fn |-> "revert"])>>),
     TaggedOps(Vt(1, 0), <<Op(USDC, [fn |-> "noop"]), Op(USER_ADDRESS, [fn |-> "noop"])>>),
     TaggedOps(Vt(3, 4), <<OpNoValue(USDC, [fn |-> "noop"])>>)}

SeqsUpTo(S, n) == UNION {[1..k -> S] : k \in 0..n}

ElementLists ==
    {MapSeq(forms, LAMBDA f : Element(USER_ADDRESS, BASE_SEPOLIA_CHAIN_ID, <<>>, f)) :
        forms \in SeqsUpTo(DestinationOpsForms, MaxElements) \ {<<>>}}

\* The destination signatures: none, and every digit string up to
\* MaxSigDigits digits over a zero and two non-zero digits.
SignatureForms == {Absent} \cup {Sig(hex) : hex \in SeqsUpTo({0, 1, 11}, MaxSigDigits)}

\* signedIntent.destinationSignature ?? '0x'
hexOf(signature) == IF signature.present THEN signature.hex ELSE <<>>

apply_toDestinationOpsEncoded(elements) ==
    /\ applied' = [fn |-> "toDestinationOpsEncoded", arg |-> elements,
                   val |-> toDestinationOpsEncoded(elements)]
    /\ UNCHANGED <<intents, world, txs, hs, now, submitted, statusResp, routed, putLog, got, portfolioResp>>

apply_isFakeSignature(signature) ==
    /\ applied' = [fn |-> "isFakeSignature", arg |-> signature,
                   fake |-> isFakeSignature(hexOf(signature)),
                   valid |-> hasValidDestinationSignature(hexOf(signature))]
    /\ UNCHANGED <<intents, world, txs, hs, now, submitted, statusResp, routed, putLog, got, portfolioResp>>

\* An address has AddressDigits hex digits (40 in the program: size 20).
AddressDigits == 2

RECURSIVE Pow16(_)
Pow16(k) == IF k = 0 THEN 1 ELSE 16 * Pow16(k - 1)

\* viem hexToBigInt: the value of the hex digits after 0x.
RECURSIVE hexToBigInt(_)
hexToBigInt(hex) ==
    IF hex = <<>> THEN 0
    ELSE hexToBigInt(SubSeq(hex, 1, Len(hex) - 1)) * 16 + hex[Len(hex)]

\* bigint.toString(16): the hex digits without leading zeros.
RECURSIVE toString16(_)
toString16(n) == IF n < 16 THEN <<n>> ELSE toString16(n \div 16) \o <<n % 16>>

\* viem toHex of a bigint: throws on a negative one.
toHex(n) == IF n < 0 THEN [res |-> "error"] ELSE [res |-> "ok", hex |-> toString16(n)]

\* A variant of pad that fills on the right (viem's dir: 'right').
pad_Right(hex, size) ==
    IF Len(hex) > size THEN [res |-> "error"]
    ELSE [res |-> "ok", hex |-> hex \o [i \in 1..(size - Len(hex)) |-> 0]]

\* viem pad(hex, {size}): zero digits on the left up to the size; throws
\* when the hex is longer than the size.
pad(hex, size) ==
    IF Len(hex) > size THEN [res |-> "error"]
    ELSE [res |-> "ok", hex |-> [i \in 1..(size - Len(hex)) |-> 0] \o hex]

\* IdAndAmount on a tuple of two integers, digit by digit:
\* {address: pad(toHex(BigInt(v[0])), {size: 20}), value: BigInt(v[1])}.
IdAndAmountHex(v) ==
    LET hex == toHex(v[1])
        padded == pad(hex.hex, AddressDigits)
    IN  IF hex.res # "ok" \/ padded.res # "ok" THEN [res |-> "error"]
        ELSE [res |-> "ok", address |-> padded.hex, value |-> v[2]]

\* The route's token-out entry: [hexToBigInt(tokenAddress), amount].
tokenOutEntry(tokenAddress, amount) == <<hexToBigInt(tokenAddress), amount>>

\* viem's zeroAddress as digits.
zeroAddressHex == [i \in 1..AddressDigits |-> 0]

\* t.address == zeroAddress
isNativeTransfer(t) == t.address = zeroAddressHex

\* Token ids: zero, small, the widest that fits an address, the first
\* that does not, and a negative one.
TokenIds == {-1, 0, 1, 15, 16, Pow16(AddressDigits) - 1, Pow16(AddressDigits)}

Amounts == {-1, 0, 1, 2}

TokenAddresses == [1..AddressDigits -> {0, 1, 15}]

apply_IdAndAmount(v) ==
    /\ applied' = [fn |-> "IdAndAmount", arg |-> v, val |-> IdAndAmountHex(v),
                   native |-> IdAndAmountHex(v).res = "ok" /\ isNativeTransfer(IdAndAmountHex(v))]
    /\ UNCHANGED <<intents, world, txs, hs, now, submitted, statusResp, routed, putLog, got, portfolioResp>>

\* The route step's entry for a token request, decoded by the store step.
apply_tokenOut(tokenAddress, amount) ==
    LET v == tokenOutEntry(tokenAddress, amount)
    IN  /\ applied' = [fn |-> "tokenOut", tokenAddress |-> tokenAddress, amount |-> amount,
                       arg |-> v, val |-> IdAndAmountHex(v),
                       native |-> IdAndAmountHex(v).res = "ok" /\ isNativeTransfer(IdAndAmountHex(v))]
        /\ UNCHANGED <<intents, world, txs, hs, now, submitted, statusResp, routed, putLog, got, portfolioResp>>

\* The non-empty tagged ops list of element i, <<>> when it has none.
OpsListOf(elements, i) ==
    IF elements[i].mandate.destinationOps.shape = "tagged"
    THEN elements[i].mandate.destinationOps.ops ELSE <<>>

\* The number of tagged ops in the elements before element i.
OpsBefore(elements, i) ==
    SumSeq([k \in 1..(i - 1) |-> Len(OpsListOf(elements, k))])

\* C24: the payload is 0x exactly when no element has a tagged non-empty
\* ops list; otherwise its execution type and signature mode are the two
\* bytes of vt of the first element with a non-empty ops list, or 2 and 1
\* when that element has no vt, and its ops are the (to, value, data) of
\* all tagged ops in element order then op order.
C24_PackedPayload ==
    (applied.fn = "toDestinationOpsEncoded" /\ applied.val.res = "ok") =>
        LET elements == applied.arg
            payload == applied.val
            withOps == {i \in 1..Len(elements) : OpsListOf(elements, i) # <<>>}
        IN  /\ payload.empty <=> withOps = {}
            /\ withOps # {} =>
                 LET f == CHOOSE i \in withOps : \A k \in withOps : i <= k
                     tag == elements[f].mandate.destinationOps.vt
                 IN  /\ payload.execType = IF tag.present THEN tag.execType ELSE 2
                     /\ payload.sigMode = IF tag.present THEN tag.sigMode ELSE 1
                     /\ Len(payload.ops) = OpsBefore(elements, Len(elements) + 1)
                     /\ \A i \in withOps : \A j \in 1..Len(OpsListOf(elements, i)) :
                            payload.ops[OpsBefore(elements, i) + j] =
                                [to |-> OpsListOf(elements, i)[j].to,
                                 value |-> OpsListOf(elements, i)[j].value,
                                 data |-> OpsListOf(elements, i)[j].data]

\* The first element with ops has no vt and the second one has: the
\* payload carries the defaults and the ops of both.
C24_Witness ==
    /\ applied.fn = "toDestinationOpsEncoded"
    /\ Len(applied.arg) = 2
    /\ applied.arg[1].mandate.destinationOps = TaggedOps(NoVt, <<Op(USDC, [fn |-> "noop"])>>)
    /\ applied.arg[2].mandate.destinationOps.shape = "tagged"
    /\ applied.arg[2].mandate.destinationOps.vt = Vt(1, 0)
    /\ applied.val.res = "ok"
    /\ applied.val.execType = 2
    /\ applied.val.sigMode = 1
    /\ Len(applied.val.ops) = 3

\* C25: isFakeSignature is true of an absent signature, of 0x and of a
\* signature whose digits are all zero, and false of every other one; a
\* destination signature is valid exactly when isFakeSignature is false.
C25_FakeSignatures ==
    applied.fn = "isFakeSignature" =>
        /\ applied.fake <=> \/ ~applied.arg.present
                            \/ applied.arg.hex = <<>>
                            \/ ~\E i \in 1..Len(applied.arg.hex) : applied.arg.hex[i] # 0
        /\ applied.valid <=> ~applied.fake

\* A signature that starts with a zero digit and is not all zero: valid.
C25_Witness ==
    /\ applied.fn = "isFakeSignature"
    /\ applied.arg = Sig(<<0, 0, 11>>)
    /\ ~applied.fake
    /\ applied.valid

\* C26: a token id from 0 up to the widest address decodes to the address
\* whose digits are the id's, right-aligned, and to the amount unchanged;
\* the token-out entry the route step makes for (tokenAddress, amount)
\* decodes to the same address and amount; the decoded address is native
\* exactly when it is all zero.
C26_TokenOutRoundTrip ==
    /\ (/\ applied.fn = "IdAndAmount"
        /\ applied.arg[1] >= 0
        /\ applied.arg[1] < Pow16(AddressDigits)) =>
           /\ applied.val.res = "ok"
           /\ Len(applied.val.address) = AddressDigits
           /\ \A k \in 0..(AddressDigits - 1) :
                  applied.val.address[AddressDigits - k] = (applied.arg[1] \div Pow16(k)) % 16
           /\ applied.val.value = applied.arg[2]
           /\ applied.native <=> applied.arg[1] = 0
    /\ applied.fn = "tokenOut" =>
           /\ applied.val.res = "ok"
           /\ applied.val.address = applied.tokenAddress
           /\ applied.val.value = applied.amount
           /\ applied.native <=> \A i \in 1..AddressDigits : applied.tokenAddress[i] = 0

\* The entry made for an address with a leading zero digit and a non-zero
\* last digit comes back as the same address, and is not native.
C26_Witness ==
    /\ applied.fn = "tokenOut"
    /\ applied.tokenAddress[1] = 0
    /\ applied.tokenAddress[AddressDigits] = 1
    /\ applied.arg[1] = 1
    /\ applied.val.res = "ok"
    /\ applied.val.address = applied.tokenAddress
    /\ applied.val.value = 2
    /\ ~applied.native

NextPure ==
    \/ \E elements \in ElementLists : apply_toDestinationOpsEncoded(elements)
    \/ \E signature \in SignatureForms : apply_isFakeSignature(signature)
    \/ \E id \in TokenIds, amount \in Amounts : apply_IdAndAmount(<<id, amount>>)
    \/ \E tokenAddress \in TokenAddresses, amount \in Amounts : apply_tokenOut(tokenAddress, amount)

SpecPure == Init /\ [][NextPure]_vars

\* ------------------------------------------- intents of several elements

\* Submissions of two elements that differ in recipient and chain, with
\* token-outs, native amounts and destination ops spread over the elements;
\* and submissions of one element with native amounts.
ElementRequests ==
    {SignedIntent(7, <<Element(USER_ADDRESS, BASE_SEPOLIA_CHAIN_ID, <<Pair(USDC, 1)>>,
                               NoDestinationOps),
                       Element(RECIPIENT_ADDRESS, SEPOLIA_CHAIN_ID, <<Pair(USDC, 1)>>,
                               NoDestinationOps)>>,
                  Absent, <<>>, TRUE),
     SignedIntent(12, <<Element(RECIPIENT_ADDRESS, SEPOLIA_CHAIN_ID, <<Pair(USDC, 1)>>,
                                NoDestinationOps),
                        Element(USER_ADDRESS, 1, <<Pair(zeroAddress, 0), Pair(USDC, 1)>>,
                                NoDestinationOps)>>,
                  Absent, <<>>, TRUE),
     SignedIntent(7, <<Element(USER_ADDRESS, BASE_SEPOLIA_CHAIN_ID, <<>>,
                               LegacyOps(<<Op(USDC, transfer(RECIPIENT_ADDRESS, 1))>>)),
                       Element(RECIPIENT_ADDRESS, SEPOLIA_CHAIN_ID, <<>>,
                               TaggedOps(Vt(2, 0), <<Op(USDC, [fn |-> "noop"])>>))>>,
                  Sig(<<0, 1>>), <<>>, TRUE),
     SignedIntent(12, <<Element(USER_ADDRESS, BASE_SEPOLIA_CHAIN_ID, <<>>,
                                LegacyOps(<<Op(USDC, transfer(RECIPIENT_ADDRESS, 1))>>)),
                        Element(RECIPIENT_ADDRESS, SEPOLIA_CHAIN_ID, <<>>,
                                LegacyOps(<<Op(USDC, [fn |-> "noop"])>>))>>,
                  Sig(<<0, 0>>), <<>>, TRUE),
     SignedIntent(7, <<Element(USER_ADDRESS, BASE_SEPOLIA_CHAIN_ID,
                               <<Pair(USDC, 1), Pair(zeroAddress, 1)>>, NoDestinationOps)>>,
                  Absent, <<>>, TRUE),
     SignedIntent(12, <<Element(USER_ADDRESS, BASE_SEPOLIA_CHAIN_ID,
                                <<Pair(zeroAddress, 1), Pair(zeroAddress, 2)>>, NoDestinationOps)>>,
                  Absent, <<>>, TRUE),
     SignedIntent(7, <<Element(USER_ADDRESS, SEPOLIA_CHAIN_ID,
                               <<Pair(zeroAddress, 0), Pair(zeroAddress, 2)>>, NoDestinationOps)>>,
                  Absent, <<>>, TRUE),
     SignedIntent(12, <<Element(RECIPIENT_ADDRESS, SEPOLIA_CHAIN_ID, <<Pair(zeroAddress, 1)>>,
                                NoDestinationOps),
                        Element(USER_ADDRESS, BASE_SEPOLIA_CHAIN_ID, <<>>, NoDestinationOps)>>,
                  Absent, <<>>, TRUE)}

NextElements ==
    \/ \E h \in DOMAIN hs, req \in ElementRequests : intent_store(h, req)
    \/ \E h \in DOMAIN hs : sendTransactionSync(h)
    \/ \E h \in DOMAIN hs : execute(h)
    \/ \E h \in DOMAIN hs : respond(h)

SpecElements == Init /\ [][NextElements]_vars

\* The request with the recipient and the chain of every later element
\* replaced by those of the first.
FirstOnly(req) ==
    [req EXCEPT !.elements =
        [i \in 1..Len(req.elements) |->
            [mandate |-> [req.elements[i].mandate EXCEPT
                 !.recipient = req.elements[1].mandate.recipient,
                 !.destinationChainId = req.elements[1].mandate.destinationChainId]]]]

\* C29: the transaction is executed on the chain of the first element, every
\* token transfer of the batch goes to the recipient of the first element,
\* with one transfer per non-native token-out of every element, and the
\* stored record carries the first element's recipient and chain; the
\* compiled transactions are those of the same request with the later
\* elements' recipient and chain replaced by the first's.
C29_FirstElementOnly ==
    \A h \in DOMAIN hs :
        (hs[h].pc # "idle" /\ hs[h].req.schemaOk /\ hs[h].req.elements # <<>>) =>
            LET req == hs[h].req
                first == req.elements[1].mandate
                outs == NonNativeOuts(req)
            IN  /\ executeIntent(req) = executeIntent(FirstOnly(req))
                /\ hs[h].sent >= 1 => txs[hs[h].hash].chain = first.destinationChainId
                /\ SentBatch(h) =>
                       /\ Len(hs[h].tx.callData.mockFills) >= Len(req.setupOps) + Len(outs)
                       /\ \A j \in 1..Len(outs) :
                              hs[h].tx.callData.mockFills[Len(req.setupOps) + j] =
                                  [target |-> outs[j].id.lo,
                                   callData |-> [fn |-> "transfer", to |-> first.recipient,
                                                 amount |-> outs[j].amount]]
                /\ hs[h].wrote =>
                       /\ getIntentById(intents, req.nonce).found
                       /\ getIntentById(intents, req.nonce).intent.userAddress = first.recipient
                       /\ getIntentById(intents, req.nonce).intent.destinationChainId =
                              first.destinationChainId

\* Two elements for different recipients on different chains, one USDC
\* each: both units reach the first recipient on the first chain, nothing
\* changes on the second chain, and the record names the first of both.
C29_Witness ==
    \E h \in DOMAIN hs :
        /\ Answered(h, 201)
        /\ Len(hs[h].req.elements) = 2
        /\ hs[h].req.elements[1].mandate.recipient = USER_ADDRESS
        /\ hs[h].req.elements[2].mandate.recipient = RECIPIENT_ADDRESS
        /\ hs[h].req.elements[2].mandate.destinationChainId = SEPOLIA_CHAIN_ID
        /\ SentBatch(h)
        /\ Len(hs[h].tx.callData.mockFills) = 2
        /\ world[BASE_SEPOLIA_CHAIN_ID].usdc[USER_ADDRESS] = 2
        /\ world[SEPOLIA_CHAIN_ID] = InitWorld[SEPOLIA_CHAIN_ID]
        /\ getIntentById(intents, 7).intent.userAddress = USER_ADDRESS
        /\ getIntentById(intents, 7).intent.destinationChainId = BASE_SEPOLIA_CHAIN_ID

\* The destination op is a call of the batch: a sub-call of the router, or
\* one of the ops of the payload of an intent-executor call.
InBatch(fills, op) ==
    \E i \in 1..Len(fills) :
        \/ fills[i] = [target |-> op.to, callData |-> op.data]
        \/ /\ fills[i].callData.fn = "executeSinglechainOps"
           /\ \E j \in 1..Len(fills[i].callData.ops.ops) :
                  /\ fills[i].callData.ops.ops[j].to = op.to
                  /\ fills[i].callData.ops.ops[j].data = op.data

\* C28: every destination op listed in an element of a submission that was
\* answered 201, in the flat or in the tagged shape, is a call of the
\* executed batch.
C28_EveryDestinationOpExecuted ==
    \A h \in DOMAIN hs :
        (Answered(h, 201) /\ destOpsOf(hs[h].req) # <<>>) =>
            /\ SentBatch(h)
            /\ \A k \in 1..Len(destOpsOf(hs[h].req)) :
                   InBatch(hs[h].tx.callData.mockFills, destOpsOf(hs[h].req)[k])

\* The native token-outs of the request, over the elements in order.
NativeOuts(req) == SelectSeq(tokenOutOf(req), IsNative)

\* C30: once a submission whose token-outs include a native amount v
\* greater than 0 has been answered 201, the recipient's native balance on
\* the destination chain, which starts at 0 and never decreases, is at
\* least v.
C30_NativeDelivered ==
    \A h \in DOMAIN hs :
        (Answered(h, 201) /\ Compiles(hs[h].req)) =>
            \A k \in 1..Len(NativeOuts(hs[h].req)) :
                NativeOuts(hs[h].req)[k].amount > 0 =>
                    world[destinationChainOf(hs[h].req)].eth[recipientOf(hs[h].req)]
                        >= NativeOuts(hs[h].req)[k].amount

\* ------------------------------------------------ overlapping submissions

\* Two requests are handled at a time: each handler runs from one await to
\* the next without interruption, and the handlers interleave at the awaits
\* of execute (the transaction is sent and mined; the receipt comes back).
ConcurrentHandlers == {"h1", "h2"}

\* Submissions of one USDC: under the same nonce for two recipients on two
\* chains, under another nonce, and one whose setup op reverts.
ConcurrentRequests ==
    {FromChoice(7, LegacyProfile),
     FromChoice(7, [LegacyProfile EXCEPT !.recipient = RECIPIENT_ADDRESS,
                                         !.chain = SEPOLIA_CHAIN_ID]),
     FromChoice(12, LegacyProfile),
     FromChoice(12, [LegacyProfile EXCEPT
                        !.setupOps = <<[to |-> USER_ADDRESS, data |-> [fn |-> "revert"]]>>])}

InitConcurrent ==
    /\ intents = <<>>
    /\ world = InitWorld
    /\ txs = <<>>
    /\ hs = [h \in ConcurrentHandlers |-> IdleHandler]
    /\ now = 0
    /\ submitted = 0
    /\ statusResp = NoResponse
    /\ routed = NoResponse
    /\ putLog = <<>>
    /\ got = [id |-> 0, result |-> NotFound]
    /\ portfolioResp = NoResponse
    /\ applied = NotApplied

\* sendTransactionSync throws: the wallet client has no nonce manager, so a
\* transaction prepared while another handler's transaction of the same
\* relayer account was in flight can carry a nonce that is already used, and
\* the node rejects it.  Nothing is mined and the handler answers 500.
rejectTransaction(h) ==
    /\ NoMicrotask
    /\ hs[h].pc = "sending"
    /\ \E o \in DOMAIN hs :
           /\ o # h
           /\ hs[o].pc = "receipt"
           /\ destinationChainOf(hs[o].req) = destinationChainOf(hs[h].req)
    /\ hs' = [hs EXCEPT ![h] = [@ EXCEPT !.pc = "done",
                                  !.resp = [code |-> 500, error |-> "nonce too low"]]]
    /\ UNCHANGED <<intents, world, txs, now, submitted, statusResp, routed, putLog, got, portfolioResp, applied>>

NextConcurrent ==
    \/ \E h \in DOMAIN hs, req \in ConcurrentRequests : intent_store(h, req)
    \/ \E h \in DOMAIN hs : sendTransactionSync(h)
    \/ \E h \in DOMAIN hs : rejectTransaction(h)
    \/ \E h \in DOMAIN hs : execute(h)
    \/ \E h \in DOMAIN hs : respond(h)

SpecConcurrent == InitConcurrent /\ [][NextConcurrent]_vars

\* The handler's await of the execution has returned and it has stored its
\* record in this step.
Stores(h) == hs[h].pc # "stored" /\ hs'[h].pc = "stored"

\* C27: under every interleaving of the handlers, a handler whose execution
\* has completed stores, under its own nonce, a record whose transaction
\* hash is that of the transaction it sent itself, which was mined
\* successfully; the records under all other nonces stay as they were, and
\* a record changes in no other step.  So the record of a nonce is always
\* that of the submission of that nonce whose execution completed last.
C27_NoLockNeeded ==
    [][/\ \A h \in DOMAIN hs :
              Stores(h) =>
                  LET key == toString(hs'[h].req.nonce)
                  IN  /\ DOMAIN intents' = DOMAIN intents \cup {key}
                      /\ \A k \in DOMAIN intents : k # key => intents'[k] = intents[k]
                      /\ intents'[key].fillTransactionHash = hs'[h].hash
                      /\ intents'[key].userAddress = hs'[h].req.elements[1].mandate.recipient
                      /\ hs'[h].hash \in 1..Len(txs')
                      /\ txs'[hs'[h].hash].by = h
                      /\ txs'[hs'[h].hash].status = "success"
                      /\ \A o \in DOMAIN hs : o # h => hs'[o].hash # hs'[h].hash
       /\ (\A h \in DOMAIN hs : ~Stores(h)) => intents' = intents]_vars

\* Two submissions of the same nonce overlapped: the transaction of the one
\* was mined first, the other one was mined and stored its record while the
\* first was waiting for its receipt, and the first stored last.  The record
\* is the first's; the record of the other nonce would be untouched.
C27_Witness ==
    /\ Answered("h1", 201)
    /\ Answered("h2", 201)
    /\ hs["h1"].req.nonce = hs["h2"].req.nonce
    /\ hs["h1"].req # hs["h2"].req
    /\ hs["h1"].wrote
    /\ hs["h2"].wrote
    /\ hs["h1"].hash < hs["h2"].hash
    /\ getIntentById(intents, hs["h1"].req.nonce).intent.fillTransactionHash = hs["h1"].hash
    /\ getIntentById(intents, hs["h1"].req.nonce).intent.userAddress = recipientOf(hs["h1"].req)

====
